---- MODULE Spec2Model ----
(***************************************************************************)
(* A model of the measurement library (src/__init__.py): the Dimension,    *)
(* Metric and Prefix registries, canonicalization of terms, the notation   *)
(* parser/formatter and the conversion resolver.                           *)
(*                                                                         *)
(* Encodings:                                                              *)
(*  - a name or a typographical symbol is a sequence of tokens (single     *)
(*    characters for symbols), so that concatenation and tokenizing are    *)
(*    computed as the code computes them;                                  *)
(*  - a power is a fixed-point number counted in 1/PowerUnit, so that the  *)
(*    half powers the code supports (Meter**0.5) are exact;                *)
(*  - a magnitude is a normalized rational <<numerator, denominator>>;     *)
(*  - the iteration order of a frozenset of terms depends on the hash seed *)
(*    of the process: it is unknown until the set is first built, and the  *)
(*    same for every equal set afterwards (metric_order, dimension_order). *)
(***************************************************************************)
EXTENDS Integers, Sequences, FiniteSets, TLC

\* ---------------------------------------------------------------- bounds
MaxOps == 2
MaxPower == 2

\* fixed-point scale of powers: powers are counted in halves
PowerUnit == 1 + 1
Whole(n) == n * PowerUnit

\* ---------------------------------------------------------------- helpers
Abs(n) == IF n < 0 THEN 0 - n ELSE n
Range(f) == {f[x] : x \in DOMAIN f}
Orders(S) == {s \in [1..Cardinality(S) -> S] : \A i, j \in 1..Cardinality(S) : s[i] = s[j] => i = j}
\* the iteration order of a frozenset of terms: the order already observed
\* for an equal set, and otherwise any order
OrderOf(table, S) == IF S \in DOMAIN table THEN table[S] ELSE CHOOSE s \in Orders(S) : TRUE
OrderChoices(table, S) == IF S \in DOMAIN table \/ Cardinality(S) < 2 THEN {OrderOf(table, S)} ELSE Orders(S)
MulPow(a, b) == (a * b) \div PowerUnit
IsWhole(p) == p % PowerUnit = 0

RECURSIVE Gcd(_, _)
Gcd(a, b) == IF b = 0 THEN a ELSE Gcd(b, a % b)
Rat(n, d) ==
    LET g == Gcd(Abs(n), Abs(d))
        s == IF d < 0 THEN -1 ELSE 1
    IN  IF n = 0 THEN <<0, 1>> ELSE <<(s * n) \div g, (s * d) \div g>>
RatMul(a, b) ==
    LET x == Rat(a[1], b[2])
        y == Rat(b[1], a[2])
    IN  Rat(x[1] * y[1], x[2] * y[2])
RatInv(a) == Rat(a[2], a[1])
RatDiv(a, b) == RatMul(a, RatInv(b))
RatAdd(a, b) == Rat(a[1] * b[2] + b[1] * a[2], a[2] * b[2])
RatInt(n) == <<n, 1>>
RECURSIVE IntPow(_, _)
IntPow(b, e) == IF e = 0 THEN 1 ELSE b * IntPow(b, e - 1)
\* base ** e for an integer e of either sign, as Python computes it
RatPow(b, e) == IF e >= 0 THEN RatInt(IntPow(b, e)) ELSE Rat(1, IntPow(b, 0 - e))
RECURSIVE RatPowRat(_, _)
RatPowRat(a, e) == IF e = 0 THEN <<1, 1>>
                   ELSE IF e < 0 THEN RatInv(RatPowRat(a, 0 - e))
                   ELSE RatMul(a, RatPowRat(a, e - 1))

\* text of a non-negative integer, one token per digit
RECURSIVE Digits(_)
Digits(n) ==
    LET d == <<"0", "1", "2", "3", "4", "5", "6", "7", "8", "9">>
    IN  IF n < 10 THEN <<d[n + 1]>> ELSE Digits(n \div 10) \o <<d[(n % 10) + 1]>>
\* six.text_type(n) for an integer n
IntText(n) == IF n < 0 THEN <<"-">> \o Digits(0 - n) ELSE Digits(n)

\* ---------------------------------------------------------------- Prefix
None == <<0, 0>>
NotImplemented == <<0, 1>>
OnePrefix == <<10, 0>>

\* Metric.Prefix.__add__ on the (base, power) values of two prefixes
PrefixAdd(p, q) ==
    IF p[1] # q[1] /\ p[2] # 0 /\ q[2] # 0 THEN NotImplemented
    ELSE IF p[2] + q[2] = 0 THEN None
    ELSE <<p[1], p[2] + q[2]>>

\* Metric.Prefix.__sub__
PrefixSub(p, q) ==
    IF p[1] # q[1] THEN NotImplemented
    ELSE IF p[2] - q[2] = 0 THEN None
    ELSE <<p[1], p[2] - q[2]>>

\* the name and symbol "%s^%s" % (base, power) of a collected prefix
CollectedSymbol(v) == IntText(v[1]) \o <<"^">> \o IntText(v[2])

PrefixObj(name, symbol, v) == [name |-> name, typographical_symbol |-> symbol, base |-> v[1], power |-> v[2]]

\* Metric.Prefix.define on the registry R; the caller has checked the value is new
PrefixDefine(R, prefix) ==
    [R EXCEPT !.defined_prefixes_by_value = (<<prefix.base, prefix.power>> :> prefix) @@ @,
              !.defined_prefixes_by_symbol = (prefix.typographical_symbol :> prefix) @@ @]

\* a define that registers the prefix whether or not its value is taken
PrefixDefineCallOverwriting(R, prefix) == [ok |-> TRUE, R |-> PrefixDefine(R, prefix)]
\* Metric.Prefix.define(prefix) as a program calls it: a KeyError for a value
\* that is registered already
PrefixDefineCall(R, prefix) ==
    IF <<prefix.base, prefix.power>> \in DOMAIN R.defined_prefixes_by_value THEN [ok |-> FALSE, R |-> R]
    ELSE [ok |-> TRUE, R |-> PrefixDefine(R, prefix)]

\* Metric.Prefix(name, symbol, base, power): __new__ resolves an existing prefix
PrefixNew(R, name, symbol, v) ==
    IF v \in DOMAIN R.defined_prefixes_by_value THEN R
    ELSE PrefixDefine(R, PrefixObj(name, symbol, v))

\* the registration a collected prefix causes inside __add__ / __sub__
PrefixCollect(R, v) ==
    IF v = None \/ v = NotImplemented THEN R
    ELSE PrefixNew(R, CollectedSymbol(v), CollectedSymbol(v), v)

\* ---------------------------------------------------------------- Dimension
NumberName == <<"number">>
\* Dimension.Term as it is stored in a canonical term set: equality is by
\* dimension name and power
DTerm(name, power) == [dimension |-> name, power |-> power]
\* a Dimension as the object of an input term: its name and its own terms
DRef(d) == [name |-> d.name, terms |-> d.terms]
DInput(d, power) == [dimension |-> DRef(d), power |-> power]
DAtom(name) == [name |-> name, terms |-> {DTerm(name, Whole(1))}]
\* the Terms of a term set as input terms (derivation.terms)
DTermsAsInput(order) == [i \in DOMAIN order |-> [dimension |-> DAtom(order[i].dimension), power |-> order[i].power]]

DTermScalar(t) == t.power = 0 \/ t.dimension.name = NumberName

RECURSIVE DimPower(_, _, _)
DimPower(terms, i, key) ==
    IF i > Len(terms) THEN 0
    ELSE LET term == terms[i]
             hit == {it \in term.dimension.terms : it.dimension = key}
             here == IF DTermScalar(term) \/ hit = {} THEN 0
                     ELSE MulPow(term.power, (CHOOSE it \in hit : TRUE).power)
         IN  here + DimPower(terms, i + 1, key)

\* Dimension.canonicalize
DimCanonicalize(terms) ==
    LET keys == UNION {{it.dimension : it \in terms[i].dimension.terms} :
                          i \in {j \in DOMAIN terms : ~DTermScalar(terms[j])}}
        normalized_terms == {DTerm(k, DimPower(terms, 1, k)) : k \in {k2 \in keys : DimPower(terms, 1, k2) # 0}}
    IN  IF normalized_terms = {} THEN {DTerm(NumberName, Whole(1))} ELSE normalized_terms

RECURSIVE Flat(_)
Flat(ss) == IF ss = <<>> THEN <<>> ELSE Head(ss) \o Flat(Tail(ss))

\* the digits Python prints after the point of a fractional power, as one token
FractionText(f) == "5"
\* six.text_type(abs(power))
PowerText(a) ==
    IF IsWhole(a) THEN Digits(a \div PowerUnit)
    ELSE Digits(a \div PowerUnit) \o <<".", FractionText(a % PowerUnit)>>
\* ExponentTypographicalSymbols: the tokens sup0, sup2 .. sup9 stand for the
\* superscript digits, and the exponent 1 prints as nothing
ExponentTypographicalSymbols == <<<<"sup0">>, <<>>, <<"sup2">>, <<"sup3">>, <<"sup4">>, <<"sup5">>,
                                  <<"sup6">>, <<"sup7">>, <<"sup8">>, <<"sup9">>>>
\* Term.power_as_typographical_symbol
PowerSymbol(power) ==
    IF IsWhole(power) /\ Abs(power) \div PowerUnit <= 9
    THEN ExponentTypographicalSymbols[(Abs(power) \div PowerUnit) + 1]
    ELSE <<"^">> \o PowerText(Abs(power))

\* the defined Dimensions a program may register: names with their symbols
\* (an empty symbol means the symbol defaults to the name)
DimensionCatalog ==
    {[name |-> <<"number">>, typographical_symbol |-> <<"N">>],
     [name |-> <<"length">>, typographical_symbol |-> <<"L">>],
     [name |-> <<"time">>, typographical_symbol |-> <<"T">>],
     [name |-> <<"temperature">>, typographical_symbol |-> <<"Theta">>],
     [name |-> <<"exchange">>, typographical_symbol |-> <<>>],
     [name |-> <<"Fake">>, typographical_symbol |-> <<"F">>]}
DefaultSymbol(name, symbol) == IF symbol = <<>> THEN name ELSE symbol
\* term.dimension.typographical_symbol of the defined Dimension a Term refers to
DimSymbolOf(name) ==
    LET c == CHOOSE c \in DimensionCatalog : c.name = name
    IN  DefaultSymbol(c.name, c.typographical_symbol)

\* Dimension.identify, iterating the terms in the given order
DimIdentify(order) ==
    LET pos(i) == order[i].power > 0
        neg(i) == order[i].power < 0
        nn == Flat([i \in DOMAIN order |-> IF pos(i) THEN order[i].dimension \o PowerSymbol(order[i].power) ELSE <<>>])
        nd == Flat([i \in DOMAIN order |-> IF neg(i) THEN order[i].dimension \o PowerSymbol(order[i].power) ELSE <<>>])
        sn == Flat([i \in DOMAIN order |-> IF pos(i) THEN DimSymbolOf(order[i].dimension) \o PowerSymbol(order[i].power) ELSE <<>>])
        sd == Flat([i \in DOMAIN order |-> IF neg(i) THEN DimSymbolOf(order[i].dimension) \o PowerSymbol(order[i].power) ELSE <<>>])
        name_numerator == IF nn = <<>> /\ order # <<>> THEN <<"1">> ELSE nn
        symbol_numerator == IF sn = <<>> /\ order # <<>> THEN <<"1">> ELSE sn
        name == IF nd # <<>> THEN name_numerator \o <<"/">> \o nd ELSE name_numerator
        symbol == IF sd # <<>> THEN symbol_numerator \o <<"/">> \o sd ELSE symbol_numerator
    IN  IF name = <<"1">> /\ symbol = <<"1">> THEN <<NumberName, <<"N">>>> ELSE <<name, symbol>>

NoDimensionPattern == [built |-> FALSE, dimension_tokens |-> <<>>]
NoDimension == [id |-> 0, name |-> <<>>, typographical_symbol |-> <<>>, terms |-> {}, defined |-> FALSE]

\* Dimension.define
DimensionDefine(R, dimension) ==
    [R EXCEPT !.defined_dimensions_by_terms = (dimension.terms :> dimension) @@ @,
              !.defined_dimensions_by_symbol = (dimension.typographical_symbol :> dimension) @@ @,
              !.dimension_parsing_pattern = NoDimensionPattern]

\* Dimension(name, typographical_symbol): a defined Dimension (no lookup)
DimensionDefined(R, name, symbol) ==
    LET register(self) == [result |-> self, R |-> DimensionDefine([R EXCEPT !.next_id = @ + 1], self)]
    IN  register([id |-> R.next_id, name |-> name, typographical_symbol |-> DefaultSymbol(name, symbol),
                  terms |-> {DTerm(name, Whole(1))}, defined |-> TRUE])

\* Dimension(name = ..., derivation = d): canonicalizes, does not look up
DimensionDerivedNamed(R, name, symbol, derivation) ==
    LET register(self) == [result |-> self, R |-> DimensionDefine([R EXCEPT !.next_id = @ + 1], self)]
        named(terms) ==
            register([id |-> R.next_id, name |-> name,
                      typographical_symbol |-> IF symbol # <<>> THEN symbol
                                               ELSE DimIdentify(OrderOf(R.dimension_order, terms))[2],
                      terms |-> terms, defined |-> FALSE])
    IN  named(DimCanonicalize(DTermsAsInput(OrderOf(R.dimension_order, derivation.terms))))

\* a Dimension.__init__ that registers every derived Dimension, named or not
DimensionResolveRegistering(R, canonical) ==
    LET derived(identity) ==
            LET self == [id |-> R.next_id, name |-> identity[1], typographical_symbol |-> identity[2],
                         terms |-> canonical, defined |-> FALSE]
            IN  [result |-> self, R |-> DimensionDefine([R EXCEPT !.next_id = @ + 1], self)]
    IN  IF canonical \in DOMAIN R.defined_dimensions_by_terms
        THEN [result |-> R.defined_dimensions_by_terms[canonical], R |-> R]
        ELSE derived(DimIdentify(OrderOf(R.dimension_order, canonical)))

\* Dimension.__new__ and __init__ for terms = [...], after canonicalize: the
\* registered Dimension of these terms, else an unnamed Dimension that is not
\* registered
DimensionResolve(R, canonical) ==
    LET derived(identity) ==
            [result |-> [id |-> R.next_id, name |-> identity[1], typographical_symbol |-> identity[2],
                         terms |-> canonical, defined |-> FALSE],
             R |-> [R EXCEPT !.next_id = @ + 1]]
    IN  IF canonical \in DOMAIN R.defined_dimensions_by_terms
        THEN [result |-> R.defined_dimensions_by_terms[canonical], R |-> R]
        ELSE derived(DimIdentify(OrderOf(R.dimension_order, canonical)))

\* Dimension(terms = [...])
DimensionFromTerms(R, terms) == DimensionResolve(R, DimCanonicalize(terms))

\* ---------------------------------------------------------------- Metric
TenName == <<"ten">>
\* the defined Metrics a program may register: name, symbol and the name of
\* the (defined) Dimension they measure
MetricCatalog ==
    {[name |-> <<"ten">>, typographical_symbol |-> <<"1", "0">>, dimension |-> <<"number">>],
     [name |-> <<"meter">>, typographical_symbol |-> <<"m">>, dimension |-> <<"length">>],
     [name |-> <<"second">>, typographical_symbol |-> <<"s">>, dimension |-> <<"time">>],
     [name |-> <<"minute">>, typographical_symbol |-> <<"m", "i", "n">>, dimension |-> <<"time">>],
     [name |-> <<"inch">>, typographical_symbol |-> <<"\"">>, dimension |-> <<"length">>],
     [name |-> <<"foot">>, typographical_symbol |-> <<"'">>, dimension |-> <<"length">>],
     [name |-> <<"kelvin">>, typographical_symbol |-> <<"K">>, dimension |-> <<"temperature">>],
     [name |-> <<"celsius">>, typographical_symbol |-> <<"deg", "C">>, dimension |-> <<"temperature">>],
     [name |-> <<"United States Dollar">>, typographical_symbol |-> <<"U", "S", "D">>, dimension |-> <<"exchange">>],
     [name |-> <<"Euro">>, typographical_symbol |-> <<"E", "U", "R">>, dimension |-> <<"exchange">>],
     [name |-> <<"faken">>, typographical_symbol |-> <<"f">>, dimension |-> <<"Fake">>]}
MCatalogEntry(name) == CHOOSE c \in MetricCatalog : c.name = name
\* term.metric.typographical_symbol / term.metric.dimension of the defined
\* Metric a canonical Term refers to
MSymbolOf(name) == MCatalogEntry(name).typographical_symbol
MDimensionOf(name) == MCatalogEntry(name).dimension

\* Metric.Term of a canonical term set: prefix is the (base, power) of the
\* Prefix, metric the name of the defined Metric
MTerm(prefix, name, power) == [prefix |-> prefix, metric |-> name, power |-> power]
\* what canonicalize reads through term.metric of an input Term
MRef(m) == [name |-> m.name, terms |-> m.terms, dimension |-> DRef(m.dimension)]
MAtom(name) == [name |-> name, terms |-> {MTerm(OnePrefix, name, Whole(1))}, dimension |-> DAtom(MDimensionOf(name))]
\* Metric.Term(prefix, metric, power) as passed to Metric(terms = [...]);
\* a missing prefix becomes the prefix one
MInput(prefix, m, power) == [prefix |-> IF prefix = None THEN OnePrefix ELSE prefix, metric |-> MRef(m), power |-> power]

\* the terms of an existing Metric as the input of canonicalize
MTermsAsInput(R, terms) ==
    LET order == OrderOf(R.metric_order, terms)
    IN  [i \in DOMAIN order |-> [prefix |-> order[i].prefix, metric |-> MAtom(order[i].metric), power |-> order[i].power]]

Fractional(p) == IF p < 0 THEN 0 - (p % PowerUnit) ELSE p % PowerUnit
\* a loop running once more than abs(whole)
WholeCountOnceMore(p) == (p - Fractional(p)) \div PowerUnit + (IF p < 0 THEN 0 - 1 ELSE 1)
WholeCount(p) == (p - Fractional(p)) \div PowerUnit
Sign(p) == IF p > 0 THEN 1 ELSE -1

\* the inner loop of Metric.canonicalize for one outer term: the flattened
\* terms of each inner term, summed; the first flattened term is marked
\* as the one that receives the outer prefix
RECURSIVE FlattenInner(_, _, _, _)
FlattenInner(term, inner, i, applied_outer_prefix) ==
    IF i > Len(inner) THEN <<>>
    ELSE LET it == inner[i]
             fractional == Fractional(it.power)
             whole == WholeCount(it.power)
             emits == whole # 0 \/ fractional # 0
             first == IF whole # 0 THEN Sign(it.power) * term.power ELSE MulPow(fractional, term.power)
             total == whole * term.power + MulPow(fractional, term.power)
             entry(outer, power) == [outer |-> outer, prefix |-> it.prefix, metric |-> it.metric, power |-> power]
             flattened == IF ~emits THEN <<>>
                          ELSE IF applied_outer_prefix THEN <<entry(FALSE, total)>>
                          ELSE <<entry(TRUE, first), entry(FALSE, total - first)>>
         IN  flattened \o FlattenInner(term, inner, i + 1, applied_outer_prefix \/ emits)

\* term.prefix + inner_term.prefix for the marked entry; the sum may register
\* a collected Prefix, and is not defined across bases (TypeError)
ApplyOuterPrefix(acc, term, entries) ==
    LET outs == {i \in DOMAIN entries : entries[i].outer}
        i == CHOOSE i \in outs : TRUE
        applied(sum) ==
            IF sum = NotImplemented THEN [acc EXCEPT !.ok = FALSE]
            ELSE [acc EXCEPT !.R = PrefixCollect(@, sum),
                             !.entries = @ \o [entries EXCEPT ![i].prefix = IF sum = None THEN OnePrefix ELSE sum]]
    IN  IF outs = {} THEN [acc EXCEPT !.entries = @ \o entries]
        ELSE applied(PrefixAdd(term.prefix, entries[i].prefix))

\* the outer loop of Metric.canonicalize over terms[i..], accumulating the
\* flattened terms and the registrations made so far; stops at a TypeError
RECURSIVE MetricFlatten(_, _, _)
MetricFlatten(acc, terms, i) ==
    IF i > Len(terms) \/ ~acc.ok THEN acc
    ELSE MetricFlatten(ApplyOuterPrefix(acc, terms[i],
                           FlattenInner(terms[i], OrderOf(acc.R.metric_order, terms[i].metric.terms), 1, FALSE)),
                       terms, i + 1)

RECURSIVE SumPower(_, _, _)
SumPower(entries, i, key) ==
    IF i > Len(entries) THEN 0
    ELSE (IF <<entries[i].prefix, entries[i].metric>> = key THEN entries[i].power ELSE 0) + SumPower(entries, i + 1, key)

\* every product of powers canonicalize computes is representable
ExactPowers(terms) ==
    \A i \in DOMAIN terms :
        /\ \A it \in terms[i].metric.terms : (Fractional(it.power) * terms[i].power) % PowerUnit = 0
        /\ \A it \in terms[i].metric.dimension.terms : (it.power * terms[i].power) % PowerUnit = 0

\* a canonicalize that keeps the terms whose powers have become 0
MetricNormalizedTermsKeepingZeros(R, terms) ==
    LET normalize(f) ==
            LET keys == {<<e.prefix, e.metric>> : e \in Range(f.entries)}
                normalized_terms == {MTerm(k[1], k[2], SumPower(f.entries, 1, k)) : k \in keys}
            IN  [ok |-> f.ok, R |-> f.R,
                 terms |-> IF normalized_terms = {} THEN {MTerm(OnePrefix, TenName, 0)} ELSE normalized_terms]
    IN  normalize(MetricFlatten([ok |-> TRUE, R |-> R, entries |-> <<>>], terms, 1))

\* Metric.canonicalize up to normalized_terms: the frozenset of normalized
\* terms, and the registries with the Prefixes collected on the way
MetricNormalizedTerms(R, terms) ==
    LET normalize(f) ==
            LET keys == {<<e.prefix, e.metric>> : e \in Range(f.entries)}
                normalized_terms == {MTerm(k[1], k[2], SumPower(f.entries, 1, k)) :
                                        k \in {k2 \in keys : SumPower(f.entries, 1, k2) # 0}}
            IN  [ok |-> f.ok, R |-> f.R,
                 terms |-> IF normalized_terms = {} THEN {MTerm(OnePrefix, TenName, 0)} ELSE normalized_terms]
    IN  normalize(MetricFlatten([ok |-> TRUE, R |-> R, entries |-> <<>>], terms, 1))

\* Metric.canonicalize up to the construction of the Dimension: the normalized
\* terms and the canonical terms of Dimension(terms = dimension_terms)
MetricCanonicalize(R, terms) ==
    LET measured(c) ==
            [ok |-> c.ok, R |-> c.R, terms |-> c.terms,
             dimension_terms |-> DimCanonicalize([i \in DOMAIN terms |->
                                     [dimension |-> terms[i].metric.dimension, power |-> terms[i].power]])]
    IN  measured(MetricNormalizedTerms(R, terms))

\* Metric.identify, iterating the frozenset in its order
MetricIdentify(R, terms) ==
    LET order == OrderOf(R.metric_order, terms)
        prefix(t) == R.defined_prefixes_by_value[t.prefix]
        name_of(t) == (IF t.prefix[2] # 0 THEN prefix(t).name ELSE <<>>) \o t.metric \o PowerSymbol(t.power)
        symbol_of(t) == (IF t.prefix[2] # 0 THEN prefix(t).typographical_symbol ELSE <<>>)
                            \o MSymbolOf(t.metric) \o PowerSymbol(t.power)
        identify(nn, nd, sn, sd) ==
            LET name == (IF nn = <<>> /\ order # <<>> THEN <<"1">> ELSE nn) \o (IF nd # <<>> THEN <<"/">> \o nd ELSE <<>>)
                symbol == (IF sn = <<>> /\ order # <<>> THEN <<"1">> ELSE sn) \o (IF sd # <<>> THEN <<"/">> \o sd ELSE <<>>)
            IN  IF name = <<"1">> /\ symbol = <<"1">> THEN <<NumberName, <<"N">>>> ELSE <<name, symbol>>
    IN  identify(Flat([i \in DOMAIN order |-> IF order[i].power >= 0 THEN name_of(order[i]) ELSE <<>>]),
                 Flat([i \in DOMAIN order |-> IF order[i].power < 0 THEN name_of(order[i]) ELSE <<>>]),
                 Flat([i \in DOMAIN order |-> IF order[i].power >= 0 THEN symbol_of(order[i]) ELSE <<>>]),
                 Flat([i \in DOMAIN order |-> IF order[i].power < 0 THEN symbol_of(order[i]) ELSE <<>>]))

NoPattern == [built |-> FALSE, prefix_tokens |-> <<>>, metric_tokens |-> <<>>]
NoMetric == [id |-> 0, name |-> <<>>, typographical_symbol |-> <<>>, dimension |-> NoDimension, terms |-> {}, defined |-> FALSE]

\* a define that makes every Metric it registers the base Metric of its
\* Dimension
MetricDefineRebasing(R, metric) ==
    [R EXCEPT !.defined_metrics_by_terms = (metric.terms :> metric) @@ @,
              !.defined_metrics_by_symbol = (metric.typographical_symbol :> metric) @@ @,
              !.base_metric_of = (metric.dimension.terms :> metric) @@ @,
              !.parsing_pattern = NoPattern]

\* Metric.define
MetricDefine(R, metric) ==
    [R EXCEPT !.defined_metrics_by_terms = (metric.terms :> metric) @@ @,
              !.defined_metrics_by_symbol = (metric.typographical_symbol :> metric) @@ @,
              !.base_metric_of = IF metric.dimension.terms \in DOMAIN @ THEN @ ELSE (metric.dimension.terms :> metric) @@ @,
              !.parsing_pattern = NoPattern]

\* Metric(name, typographical_symbol, dimension): a defined Metric (no lookup)
MetricDefined(R, name, symbol, dimension) ==
    LET register(self) == [ok |-> TRUE, result |-> self, R |-> MetricDefine([R EXCEPT !.next_id = @ + 1], self)]
    IN  register([id |-> R.next_id, name |-> name, typographical_symbol |-> DefaultSymbol(name, symbol),
                  dimension |-> dimension, terms |-> {MTerm(OnePrefix, name, Whole(1))}, defined |-> TRUE])

\* a Metric.__init__ that looks the canonical terms of a named derivation up
\* and returns the instance already registered under them
MetricNamedLookingUp(c, name, symbol) ==
    LET register(self, R) == [ok |-> TRUE, result |-> self, R |-> MetricDefine([R EXCEPT !.next_id = @ + 1], self)]
        named(d) ==
            IF c.terms \in DOMAIN d.R.defined_metrics_by_terms
            THEN [ok |-> TRUE, result |-> d.R.defined_metrics_by_terms[c.terms], R |-> d.R]
            ELSE register([id |-> d.R.next_id, name |-> name, typographical_symbol |-> DefaultSymbol(name, symbol),
                           dimension |-> d.result, terms |-> c.terms, defined |-> FALSE], d.R)
    IN  IF ~c.ok THEN [ok |-> FALSE, result |-> NoMetric, R |-> c.R]
        ELSE named(DimensionResolve(c.R, c.dimension_terms))

\* Metric.__init__ of a named derivation, after canonicalize: the new
\* instance is registered; nothing is looked up
MetricNamed(c, name, symbol) ==
    LET register(self, R) == [ok |-> TRUE, result |-> self, R |-> MetricDefine([R EXCEPT !.next_id = @ + 1], self)]
        named(d) == register([id |-> d.R.next_id, name |-> name, typographical_symbol |-> DefaultSymbol(name, symbol),
                              dimension |-> d.result, terms |-> c.terms, defined |-> FALSE], d.R)
    IN  IF ~c.ok THEN [ok |-> FALSE, result |-> NoMetric, R |-> c.R]
        ELSE named(DimensionResolve(c.R, c.dimension_terms))

\* Metric(name, typographical_symbol, derivation = m)
MetricDerivedNamed(R, name, symbol, derivation) ==
    MetricNamed(MetricCanonicalize(R, MTermsAsInput(R, derivation.terms)), name, symbol)

\* a Metric.__new__ that never reuses a registered instance
MetricResolveWithoutLookup(c) ==
    LET derived(d, identity) ==
            [ok |-> TRUE, R |-> [d.R EXCEPT !.next_id = @ + 1],
             result |-> [id |-> d.R.next_id, name |-> identity[1], typographical_symbol |-> identity[2],
                         dimension |-> d.result, terms |-> c.terms, defined |-> FALSE]]
        resolved(d) == derived(d, MetricIdentify(d.R, c.terms))
    IN  IF ~c.ok THEN [ok |-> FALSE, result |-> NoMetric, R |-> c.R]
        ELSE resolved(DimensionResolve(c.R, c.dimension_terms))

\* a Metric.__init__ that registers every derived Metric, named or not
MetricResolveRegistering(c) ==
    LET derived(d, identity) ==
            LET self == [id |-> d.R.next_id, name |-> identity[1], typographical_symbol |-> identity[2],
                         dimension |-> d.result, terms |-> c.terms, defined |-> FALSE]
            IN  [ok |-> TRUE, R |-> MetricDefine([d.R EXCEPT !.next_id = @ + 1], self), result |-> self]
        resolved(d) ==
            IF c.terms \in DOMAIN d.R.defined_metrics_by_terms
            THEN [ok |-> TRUE, result |-> d.R.defined_metrics_by_terms[c.terms], R |-> d.R]
            ELSE derived(d, MetricIdentify(d.R, c.terms))
    IN  IF ~c.ok THEN [ok |-> FALSE, result |-> NoMetric, R |-> c.R]
        ELSE resolved(DimensionResolve(c.R, c.dimension_terms))

\* Metric.__new__ and __init__ for terms = [...], after canonicalize: the
\* registered instance of these terms, else an unnamed Metric that is not
\* registered
MetricResolve(c) ==
    LET derived(d, identity) ==
            [ok |-> TRUE, R |-> [d.R EXCEPT !.next_id = @ + 1],
             result |-> [id |-> d.R.next_id, name |-> identity[1], typographical_symbol |-> identity[2],
                         dimension |-> d.result, terms |-> c.terms, defined |-> FALSE]]
        resolved(d) ==
            IF c.terms \in DOMAIN d.R.defined_metrics_by_terms
            THEN [ok |-> TRUE, result |-> d.R.defined_metrics_by_terms[c.terms], R |-> d.R]
            ELSE derived(d, MetricIdentify(d.R, c.terms))
    IN  IF ~c.ok THEN [ok |-> FALSE, result |-> NoMetric, R |-> c.R]
        ELSE resolved(DimensionResolve(c.R, c.dimension_terms))

\* Metric(terms = [...])
MetricFromTerms(R, terms) == MetricResolve(MetricCanonicalize(R, terms))

\* Metric.__mul__, __truediv__, __pow__ and Prefix.__mul__
MetricMul(R, self, other) == MetricFromTerms(R, <<MInput(None, self, Whole(1)), MInput(None, other, Whole(1))>>)
MetricDiv(R, self, other) == MetricFromTerms(R, <<MInput(None, self, Whole(1)), MInput(None, other, Whole(0 - 1))>>)
MetricPow(R, self, power) == MetricFromTerms(R, <<MInput(None, self, power)>>)
PrefixMul(R, prefix, other) == MetricFromTerms(R, <<MInput(prefix, other, Whole(1))>>)

\* Dimension.__mul__, __truediv__, __pow__
DimensionMul(R, self, other) == DimensionFromTerms(R, <<DInput(self, Whole(1)), DInput(other, Whole(1))>>)
DimensionDiv(R, self, other) == DimensionFromTerms(R, <<DInput(self, Whole(1)), DInput(other, Whole(0 - 1))>>)
DimensionPow(R, self, power) == DimensionFromTerms(R, <<DInput(self, power)>>)

\* ---------------------------------------------------------------- Quantity and Conversion
Quantity(magnitude, metric) == [magnitude |-> magnitude, metric |-> metric]
NoQuantity == Quantity(<<0, 1>>, NoMetric)
NoConversion == [kind |-> "none", scalar_factor |-> NoQuantity, from_metric |-> NoMetric, to_metric |-> NoMetric,
                 offset |-> <<0, 1>>]

\* Conversion.__init__: Metric.conversions[metric] = self; a dict finds a key
\* with the same hash that compares equal, which is a key with equal terms
ConversionRegister(R, metric, conversion) == [R EXCEPT !.conversions = (metric.terms :> conversion) @@ @]

\* Metric.ScalarConversion(Quantity(factor, numerator / denominator))
ScalarConversion(R, factor, numerator, denominator) ==
    LET register(ratio) ==
            IF ~ratio.ok THEN [ok |-> FALSE, R |-> ratio.R]
            ELSE [ok |-> TRUE,
                  R |-> ConversionRegister(ratio.R, ratio.result,
                            [NoConversion EXCEPT !.kind = "scalar", !.scalar_factor = Quantity(factor, ratio.result)])]
    IN  register(MetricDiv(R, numerator, denominator))

\* Metric.FunctionConversion(from_metric, to_metric, lambda q: (q.magnitude + offset) * to_metric,
\*                           lambda q: (q.magnitude - offset) * from_metric)
FunctionConversion(R, from_metric, to_metric, offset) ==
    LET register(ratio) ==
            IF ~ratio.ok THEN [ok |-> FALSE, R |-> ratio.R]
            ELSE [ok |-> TRUE,
                  R |-> ConversionRegister(ratio.R, ratio.result,
                            [NoConversion EXCEPT !.kind = "function", !.from_metric = from_metric,
                                                 !.to_metric = to_metric, !.offset = offset])]
    IN  register(MetricDiv(R, from_metric, to_metric))

\* the instance registered under a symbol
DimBySymbol(R, symbol) == R.defined_dimensions_by_symbol[symbol]
MetricBySymbol(R, symbol) == R.defined_metrics_by_symbol[symbol]

\* ---------------------------------------------------------------- the conversion resolver
\* A Metric built while a conversion is computed is modelled by its canonical
\* terms alone, [terms |-> T]: a conversion reads nothing else of it, and
\* building it registers nothing (every Term it is built from has no prefix,
\* and the sum of no prefix and a prefix of base ten is that prefix).
MetricBuilt(R, terms) == [terms |-> MetricNormalizedTerms(R, terms).terms]
\* Metric.Term(None, metric, power)
Factor(metric, power) == [prefix |-> OnePrefix, metric |-> [terms |-> metric.terms], power |-> power]
\* the Terms of a term set, in the given order, as passed to Metric(terms = [...])
TermInputs(order) == [i \in DOMAIN order |-> [prefix |-> order[i].prefix, metric |-> MAtom(order[i].metric), power |-> order[i].power]]

\* the integer square root, and the magnitudes whose square root is exact
RECURSIVE Isqrt(_, _, _)
Isqrt(n, lo, hi) ==
    IF lo >= hi THEN lo
    ELSE LET mid == (lo + hi + 1) \div 2
         IN  IF mid * mid <= n THEN Isqrt(n, mid, hi) ELSE Isqrt(n, lo, mid - 1)
IntRoot(n) == Isqrt(n, 0, IF n > 46340 THEN 46340 ELSE n)
RootExact(a) == a[1] >= 0 /\ IntRoot(a[1]) * IntRoot(a[1]) = a[1] /\ IntRoot(a[2]) * IntRoot(a[2]) = a[2]
\* magnitude ** power for a power counted in 1/PowerUnit
MagnitudePow(a, power) ==
    LET root(b) == <<IntRoot(b[1]), IntRoot(b[2])>>
    IN  IF IsWhole(power) THEN RatPowRat(a, power \div PowerUnit) ELSE root(RatPowRat(a, power))

\* Quantity.__mul__, __truediv__ and __pow__
QuantityMul(R, self, other) ==
    Quantity(RatMul(self.magnitude, other.magnitude),
             MetricBuilt(R, <<Factor(self.metric, Whole(1)), Factor(other.metric, Whole(1))>>))
QuantityDiv(R, self, other) ==
    Quantity(RatDiv(self.magnitude, other.magnitude),
             MetricBuilt(R, <<Factor(self.metric, Whole(1)), Factor(other.metric, Whole(0 - 1))>>))
QuantityPow(R, self, power) ==
    Quantity(MagnitudePow(self.magnitude, power), MetricBuilt(R, <<Factor(self.metric, power)>>))

\* the loop of Metric.reduce over the terms: the product of the prefix scales
RECURSIVE ReducedMagnitude(_, _)
ReducedMagnitude(order, i) ==
    IF i > Len(order) THEN RatInt(1)
    ELSE LET term == order[i]
             scale == RatPow(term.prefix[1], (term.prefix[2] * term.power) \div PowerUnit)
             here == IF term.metric # TenName THEN scale
                     ELSE IF term.power # 0 THEN RatMul(RatPow(10, term.power \div PowerUnit), scale)
                     ELSE RatInt(1)
         IN  RatMul(here, ReducedMagnitude(order, i + 1))
\* Metric.reduce: a Quantity expressed without prefixes
MetricReduce(R, self) ==
    LET order == OrderOf(R.metric_order, self.terms)
        kept == SelectSeq(order, LAMBDA t : t.metric # TenName)
    IN  Quantity(ReducedMagnitude(order, 1),
                 MetricBuilt(R, [i \in DOMAIN kept |-> Factor(MAtom(kept[i].metric), kept[i].power)]))
\* the magnitude of Metric.reduce, a product of powers of 2 and of 10 that a
\* Python integer holds whatever its size, kept as the two exponents
\* (counted in 1/PowerUnit)
RECURSIVE ReducedScale(_, _)
ReducedScale(order, i) ==
    IF i > Len(order) THEN [two |-> 0, ten |-> 0]
    ELSE LET term == order[i]
             rest == ReducedScale(order, i + 1)
             exponent == IF term.metric = TenName /\ term.power = 0 THEN 0 ELSE term.prefix[2] * term.power
         IN  [two |-> rest.two + (IF term.prefix[1] = 1 + 1 THEN exponent ELSE 0),
              ten |-> rest.ten + (IF term.prefix[1] = 10 THEN exponent ELSE 0)
                               + (IF term.metric = TenName THEN term.power ELSE 0)]
\* Metric.reduce, with the magnitude kept as its exponents
MetricReduceScale(R, self) ==
    LET order == OrderOf(R.metric_order, self.terms)
        kept == SelectSeq(order, LAMBDA t : t.metric # TenName)
    IN  [scale |-> ReducedScale(order, 1),
         metric |-> MetricBuilt(R, [i \in DOMAIN kept |-> Factor(MAtom(kept[i].metric), kept[i].power)])]
\* Quantity.reduce
QuantityReduce(R, self) ==
    LET scaled(reduced_metric) == Quantity(RatMul(self.magnitude, reduced_metric.magnitude), reduced_metric.metric)
    IN  scaled(MetricReduce(R, self.metric))

\* Metric.__eq__ between two Metrics
MetricEq(R, self, other) ==
    LET equal(reduced_self, reduced_other) ==
            /\ reduced_self.magnitude = reduced_other.magnitude
            /\ reduced_self.metric.terms = reduced_other.metric.terms
    IN  equal(MetricReduce(R, self), MetricReduce(R, other))

\* Metric.numerator and Metric.denominator
Numerator(R, self) ==
    MetricBuilt(R, TermInputs(SelectSeq(OrderOf(R.metric_order, self.terms), LAMBDA t : t.power > 0)))
Denominator(R, self) ==
    LET inverted(below) == MetricBuilt(R, <<Factor(MetricBySymbol(R, <<"1">>), Whole(1)), Factor(below, Whole(0 - 1))>>)
    IN  inverted(MetricBuilt(R, TermInputs(SelectSeq(OrderOf(R.metric_order, self.terms), LAMBDA t : t.power < 0))))

\* what a call of a conversion gives: a Quantity, or MetricConversionError
Converted(quantity) == [ok |-> TRUE, quantity |-> quantity]
NotConvertible == [ok |-> FALSE, quantity |-> NoQuantity]

\* a ScalarConversion that divides whatever Quantity it is given
ScalarConversionCallNeverRaising(R, self, quantity) ==
    Converted(QuantityDiv(R, QuantityReduce(R, quantity), QuantityReduce(R, self.scalar_factor)))

\* Metric.ScalarConversion.__call__; the Term built from the reduced metric
\* compares by the name of that metric, which is the name of the Metric
\* registered under its terms
ScalarConversionCall(R, self, quantity) ==
    LET call(reduced_quantity, reduced_factor) ==
            LET name == IF reduced_quantity.metric.terms \in DOMAIN R.defined_metrics_by_terms
                        THEN R.defined_metrics_by_terms[reduced_quantity.metric.terms].name
                        ELSE <<>>
                by_parts(qn, qd, fn, fd) ==
                    IF MetricEq(R, qn, fn) \/ MetricEq(R, qd, fd) THEN "divide"
                    ELSE IF MetricEq(R, qn, fd) \/ MetricEq(R, qd, fn) THEN "multiply"
                    ELSE "raise"
                apply(how) ==
                    IF how = "divide" THEN Converted(QuantityDiv(R, reduced_quantity, reduced_factor))
                    ELSE IF how = "multiply" THEN Converted(QuantityMul(R, reduced_quantity, reduced_factor))
                    ELSE NotConvertible
            IN  apply(IF MTerm(OnePrefix, name, Whole(1)) \in reduced_factor.metric.terms THEN "divide"
                      ELSE IF MTerm(OnePrefix, name, Whole(0 - 1)) \in reduced_factor.metric.terms THEN "multiply"
                      ELSE by_parts(Numerator(R, reduced_quantity.metric), Denominator(R, reduced_quantity.metric),
                                    Numerator(R, reduced_factor.metric), Denominator(R, reduced_factor.metric)))
    IN  call(QuantityReduce(R, quantity), QuantityReduce(R, self.scalar_factor))

\* a FunctionConversion that applies from_function in both directions
FunctionConversionCallForward(R, self, quantity) ==
    IF MetricEq(R, quantity.metric, self.to_metric)
    THEN Converted(Quantity(RatAdd(quantity.magnitude, self.offset), self.from_metric))
    ELSE IF MetricEq(R, quantity.metric, self.from_metric)
    THEN Converted(Quantity(RatAdd(quantity.magnitude, self.offset), self.to_metric))
    ELSE NotConvertible

\* Metric.FunctionConversion.__call__ for the pair of functions
\* from_function = lambda q: (q.magnitude + offset) * to_metric and
\* to_function = lambda q: (q.magnitude - offset) * from_metric
FunctionConversionCall(R, self, quantity) ==
    IF MetricEq(R, quantity.metric, self.to_metric)
    THEN Converted(Quantity(RatAdd(quantity.magnitude, Rat(0 - self.offset[1], self.offset[2])), self.from_metric))
    ELSE IF MetricEq(R, quantity.metric, self.from_metric)
    THEN Converted(Quantity(RatAdd(quantity.magnitude, self.offset), self.to_metric))
    ELSE NotConvertible

\* conversion(quantity) for a registered Conversion
ConversionCall(R, self, quantity) ==
    IF self.kind = "scalar" THEN ScalarConversionCall(R, self, quantity)
    ELSE FunctionConversionCall(R, self, quantity)

\* what Metric.to and Metric.find_conversion return or raise: the Conversion
\* found in the table ("direct"), one of the functions they build
\* ("identity", "prefix", "inverse", "root", "factor-label"), None, or the
\* exception raised ("MetricConversionError", "RecursionError")
Resolved(kind, magnitude, conversion, metric, power) ==
    [kind |-> kind, magnitude |-> magnitude, conversion |-> conversion, metric |-> metric, power |-> power]
NotFound == Resolved("None", <<0, 1>>, NoConversion, NoMetric, 0)
Raised(exception) == Resolved(exception, <<0, 1>>, NoConversion, NoMetric, 0)
IsRaised(found) == found.kind \in {"MetricConversionError", "RecursionError"}

\* the call found(quantity) of what Metric.to returned
Apply(R, found, quantity) ==
    LET scaled == Converted(Quantity(RatMul(found.magnitude, quantity.magnitude), found.metric))
        called(c) ==
            IF ~c.ok THEN c
            ELSE IF found.kind = "direct" THEN c
            ELSE IF found.kind = "inverse"
            THEN Converted(Quantity(RatMul(found.magnitude, c.quantity.magnitude), found.metric))
            ELSE Converted(QuantityPow(R, c.quantity, Whole(found.power)))
    IN  IF found.kind = "identity"
        THEN Converted(QuantityMul(R, Quantity(RatInt(1), MetricBySymbol(R, <<"1">>)), quantity))
        ELSE IF found.kind \in {"prefix", "factor-label"} THEN scaled
        ELSE called(ConversionCall(R, found.conversion,
                                   IF found.kind = "root" THEN QuantityPow(R, quantity, PowerUnit \div found.power)
                                   ELSE quantity))

\* max(terms, key = lambda t: abs(t.power)).power: the power of the first
\* term, in iteration order, of the greatest absolute power
HighestPower(order) ==
    LET greatest == CHOOSE i \in DOMAIN order : \A j \in DOMAIN order : Abs(order[j].power) <= Abs(order[i].power)
        first == CHOOSE i \in DOMAIN order :
                    /\ Abs(order[i].power) = Abs(order[greatest].power)
                    /\ \A j \in 1..(i - 1) : Abs(order[j].power) < Abs(order[i].power)
    IN  order[first].power

\* the loop of find_conversion over range(highest_power, 1, -1), from power
\* down: the registered Conversion of a root of the metric to find
RECURSIVE Factoring(_, _, _)
Factoring(R, metric_to_find, power) ==
    LET try(factored_metric) ==
            LET inverse(inverse_factored_metric) ==
                    IF inverse_factored_metric.terms \in DOMAIN R.conversions
                    THEN Resolved("root", <<1, 1>>, R.conversions[inverse_factored_metric.terms], NoMetric, power)
                    ELSE Factoring(R, metric_to_find, power - 1)
            IN  IF factored_metric.terms \in DOMAIN R.conversions
                THEN Resolved("root", <<1, 1>>, R.conversions[factored_metric.terms], NoMetric, power)
                ELSE inverse(MetricBuilt(R, <<Factor(MetricBySymbol(R, <<"1">>), Whole(1)),
                                              Factor(factored_metric, Whole(0 - 1))>>))
    IN  IF power <= 1 THEN NotFound
        ELSE try(MetricBuilt(R, <<Factor(metric_to_find, PowerUnit \div power)>>))

\* the factor-label loop of find_conversion over the terms order[i..], given
\* what term.metric.to(si_metric)(1 * term.metric) came to for each term;
\* si_conversion is the product so far
RECURSIVE FactorLabel(_, _, _, _, _)
FactorLabel(R, order, term_quantities, i, si_conversion) ==
    IF i > Len(order) THEN [raised |-> "", quantity |-> si_conversion]
    ELSE IF term_quantities[i].raised # "" THEN term_quantities[i]
    ELSE FactorLabel(R, order, term_quantities, i + 1,
                     IF order[i].power > 0 THEN QuantityMul(R, si_conversion, term_quantities[i].quantity)
                     ELSE QuantityDiv(R, si_conversion, term_quantities[i].quantity))

\* Metric.to (entry "to") and Metric.find_conversion (entry "find_conversion"),
\* which call each other. A call made while the same call is in progress
\* (pending) never returns: the interpreter raises RecursionError.
RECURSIVE Resolver(_, _, _, _, _)
Resolver(R, entry, from_metric, to_metric, pending) ==
    LET inside == pending \cup {<<from_metric.terms, to_metric.terms>>}
        One_ == MetricBySymbol(R, <<"1">>)
        \* term.metric.to(si_metric)(1 * term.metric)
        term_quantity(term) ==
            LET metric == MetricBySymbol(R, MSymbolOf(term.metric))
                called(c) == IF c.ok THEN [raised |-> "", quantity |-> c.quantity]
                             ELSE [raised |-> "MetricConversionError", quantity |-> NoQuantity]
                applied(term_conversion) ==
                    IF IsRaised(term_conversion) THEN [raised |-> term_conversion.kind, quantity |-> NoQuantity]
                    ELSE called(Apply(R, term_conversion, Quantity(RatInt(1), metric)))
            IN  applied(Resolver(R, "to", metric, R.base_metric_of[metric.dimension.terms], inside))
        resolve(reduced, reduced_to) ==
            LET metric_to_find == reduced.metric
                labelled(si_conversion) ==
                    IF si_conversion.raised # "" THEN Raised(si_conversion.raised)
                    ELSE IF MetricEq(R, si_conversion.quantity.metric, One_)
                    THEN Resolved("factor-label", si_conversion.quantity.magnitude, NoConversion, reduced_to.metric, 1)
                    ELSE NotFound
                chained(order) ==
                    labelled(FactorLabel(R, order, [i \in DOMAIN order |-> term_quantity(order[i])], 1,
                                         Quantity(RatInt(1), One_)))
                factored(found) ==
                    IF found.kind # "None" THEN found
                    ELSE chained(OrderOf(R.metric_order, metric_to_find.terms))
                lookup(inverse_to_find) ==
                    IF metric_to_find.terms \in DOMAIN R.conversions
                    THEN Resolved("direct", <<1, 1>>, R.conversions[metric_to_find.terms], NoMetric, 1)
                    ELSE IF inverse_to_find.terms \in DOMAIN R.conversions
                    THEN Resolved("inverse", reduced.magnitude, R.conversions[inverse_to_find.terms], to_metric, 1)
                    ELSE factored(Factoring(R, metric_to_find,
                                            HighestPower(OrderOf(R.metric_order, metric_to_find.terms)) \div PowerUnit))
            IN  IF MetricEq(R, metric_to_find, One_)
                THEN Resolved("prefix", reduced.magnitude, NoConversion, to_metric, 1)
                ELSE lookup(MetricBuilt(R, <<Factor(One_, Whole(1)), Factor(metric_to_find, Whole(0 - 1))>>))
        reduce(reduced_from, reduced_to) == resolve(QuantityDiv(R, reduced_from, reduced_to), reduced_to)
        found(conversion) == IF conversion.kind = "None" THEN Raised("MetricConversionError") ELSE conversion
    IN  IF entry = "to"
        THEN IF MetricEq(R, from_metric, to_metric) THEN Resolved("identity", <<1, 1>>, NoConversion, NoMetric, 1)
             ELSE IF from_metric.dimension.terms # to_metric.dimension.terms THEN Raised("MetricConversionError")
             ELSE found(Resolver(R, "find_conversion", from_metric, to_metric, pending))
        ELSE IF <<from_metric.terms, to_metric.terms>> \in pending THEN Raised("RecursionError")
        ELSE reduce(MetricReduce(R, from_metric), MetricReduce(R, to_metric))

\* Metric.find_conversion(from_metric, to_metric), called by the program
FindConversion(R, from_metric, to_metric) == Resolver(R, "find_conversion", from_metric, to_metric, {})
\* self.to(other), called by the program
MetricTo(R, self, other) == Resolver(R, "to", self, other, {})

\* Metric.is_convertible_to: True, False, or the exception raised
IsConvertibleTo(R, self, other) ==
    LET truth(conversion) ==
            IF IsRaised(conversion) THEN conversion.kind
            ELSE IF conversion.kind = "None" THEN "False" ELSE "True"
    IN  IF MetricEq(R, self, other) THEN "True"
        ELSE IF self.dimension.terms # other.dimension.terms THEN "False"
        ELSE truth(FindConversion(R, self, other))

\* Quantity.to: self.metric.to(desired_metric)(self); a root that is no
\* rational number is outside the magnitudes modelled ("inexact")
QuantityTo(R, self, desired_metric) ==
    LET call(conversion) ==
            LET returned(c) == [outcome |-> IF c.ok THEN "ok" ELSE "MetricConversionError",
                                strategy |-> conversion.kind, quantity |-> c.quantity]
            IN  IF IsRaised(conversion) THEN [outcome |-> conversion.kind, strategy |-> "", quantity |-> NoQuantity]
                ELSE IF conversion.kind = "root" /\ ~RootExact(self.magnitude)
                THEN [outcome |-> "inexact", strategy |-> "root", quantity |-> NoQuantity]
                ELSE returned(Apply(R, conversion, self))
    IN  call(MetricTo(R, self.metric, desired_metric))

\* ---------------------------------------------------------------- the catalog defined at import
EmptyRegistry ==
    [defined_dimensions_by_terms |-> <<>>, defined_dimensions_by_symbol |-> <<>>,
     dimension_parsing_pattern |-> NoDimensionPattern,
     defined_metrics_by_terms |-> <<>>, defined_metrics_by_symbol |-> <<>>, base_metric_of |-> <<>>,
     parsing_pattern |-> NoPattern,
     defined_prefixes_by_value |-> <<>>, defined_prefixes_by_symbol |-> <<>>,
     conversions |-> <<>>, metric_order |-> <<>>, dimension_order |-> <<>>, next_id |-> 1]

KiloPrefix == <<10, 3>>
MilliPrefix == <<10, 0 - 3>>
KibiPrefix == <<2, 10>>

\* the statements executed by `import measurement`, in their order; Metrics
\* and Dimensions are referred to by their symbols, a derivation by its Terms
CoreStatements ==
    <<[op |-> "Dimension", name |-> <<"number">>, typographical_symbol |-> <<"N">>],
      [op |-> "Dimension", name |-> <<"length">>, typographical_symbol |-> <<"L">>],
      [op |-> "Dimension", name |-> <<"time">>, typographical_symbol |-> <<"T">>],
      [op |-> "Dimension", name |-> <<"temperature">>, typographical_symbol |-> <<"Theta">>],
      [op |-> "Dimension(derivation)", name |-> <<"speed">>, typographical_symbol |-> <<>>,
       self |-> <<"L">>, other |-> <<"T">>],
      [op |-> "Dimension", name |-> <<"exchange">>, typographical_symbol |-> <<>>],
      [op |-> "Prefix", name |-> <<"one">>, typographical_symbol |-> <<"1">>, value |-> OnePrefix],
      [op |-> "Metric", name |-> TenName, typographical_symbol |-> <<"1", "0">>, dimension |-> <<"N">>],
      [op |-> "Metric(derivation)", name |-> <<"one">>, typographical_symbol |-> <<"1">>,
       terms |-> <<<<<<"1", "0">>, 0>>>>],
      [op |-> "Prefix", name |-> <<"kilo">>, typographical_symbol |-> <<"k">>, value |-> KiloPrefix],
      [op |-> "Prefix", name |-> <<"milli">>, typographical_symbol |-> <<"m">>, value |-> MilliPrefix],
      [op |-> "Prefix", name |-> <<"kibi">>, typographical_symbol |-> <<"K", "i">>, value |-> KibiPrefix],
      [op |-> "Metric", name |-> <<"meter">>, typographical_symbol |-> <<"m">>, dimension |-> <<"L">>],
      [op |-> "Metric", name |-> <<"second">>, typographical_symbol |-> <<"s">>, dimension |-> <<"T">>],
      [op |-> "Metric", name |-> <<"kelvin">>, typographical_symbol |-> <<"K">>, dimension |-> <<"Theta">>],
      [op |-> "Metric(derivation)", name |-> <<"radian">>, typographical_symbol |-> <<"r", "a", "d">>,
       terms |-> <<<<<<"m">>, Whole(1)>>, <<<<"m">>, Whole(0 - 1)>>>>]>>
\* Minute and Celsius with their Conversions
ConversionStatements ==
    <<[op |-> "Metric", name |-> <<"minute">>, typographical_symbol |-> <<"m", "i", "n">>, dimension |-> <<"T">>],
      [op |-> "ScalarConversion", factor |-> <<60, 1>>, self |-> <<"s">>, other |-> <<"m", "i", "n">>],
      [op |-> "Metric", name |-> <<"celsius">>, typographical_symbol |-> <<"deg", "C">>, dimension |-> <<"Theta">>],
      [op |-> "FunctionConversion", self |-> <<"deg", "C">>, other |-> <<"K">>, offset |-> <<5463, 20>>]>>
\* united_states_customary: Inch and Foot with their ScalarConversions
USCustomaryStatements ==
    <<[op |-> "Metric", name |-> <<"inch">>, typographical_symbol |-> <<"\"">>, dimension |-> <<"L">>],
      [op |-> "ScalarConversion", factor |-> <<127, 5000>>, self |-> <<"m">>, other |-> <<"\"">>],
      [op |-> "Metric", name |-> <<"foot">>, typographical_symbol |-> <<"'">>, dimension |-> <<"L">>],
      [op |-> "ScalarConversion", factor |-> <<381, 1250>>, self |-> <<"m">>, other |-> <<"'">>],
      [op |-> "ScalarConversion", factor |-> <<12, 1>>, self |-> <<"\"">>, other |-> <<"'">>]>>
\* currencies: two Metrics of the Dimension Exchange, with no Conversion
CurrencyStatements ==
    <<[op |-> "Metric", name |-> <<"United States Dollar">>, typographical_symbol |-> <<"U", "S", "D">>,
       dimension |-> <<"exchange">>],
      [op |-> "Metric", name |-> <<"Euro">>, typographical_symbol |-> <<"E", "U", "R">>, dimension |-> <<"exchange">>]>>

\* one module-level statement executed on the registries R: the registries
\* it leaves, and whether it returned (ok) or raised
Execute(R, st) ==
    CASE st.op = "Dimension" -> [ok |-> TRUE, R |-> DimensionDefined(R, st.name, st.typographical_symbol).R]
      [] st.op = "Dimension(derivation)" ->
            LET named(d) == DimensionDerivedNamed(d.R, st.name, st.typographical_symbol, d.result)
            IN  [ok |-> TRUE, R |-> named(DimensionDiv(R, DimBySymbol(R, st.self), DimBySymbol(R, st.other))).R]
      [] st.op = "Prefix" -> [ok |-> TRUE, R |-> PrefixNew(R, st.name, st.typographical_symbol, st.value)]
      [] st.op = "Metric" ->
            [ok |-> TRUE, R |-> MetricDefined(R, st.name, st.typographical_symbol, DimBySymbol(R, st.dimension)).R]
      [] st.op = "Metric(derivation)" ->
            LET named(d) == IF d.ok THEN MetricDerivedNamed(d.R, st.name, st.typographical_symbol, d.result) ELSE d
                done(out) == [ok |-> out.ok, R |-> out.R]
            IN  done(named(MetricFromTerms(R, [i \in DOMAIN st.terms |->
                                               MInput(None, MetricBySymbol(R, st.terms[i][1]), st.terms[i][2])])))
      [] st.op = "ScalarConversion" ->
            ScalarConversion(R, st.factor, MetricBySymbol(R, st.self), MetricBySymbol(R, st.other))
      [] st.op = "FunctionConversion" ->
            FunctionConversion(R, MetricBySymbol(R, st.self), MetricBySymbol(R, st.other), st.offset)
\* the statements of a module executed in order, up to the first that raises
RECURSIVE Import(_, _, _)
Import(acc, statements, i) ==
    IF i > Len(statements) \/ ~acc.ok THEN acc
    ELSE Import(Execute(acc.R, statements[i]), statements, i + 1)

\* the registries after `import measurement` and its unit modules
Catalog ==
    Import([ok |-> TRUE, R |-> EmptyRegistry],
           CoreStatements \o ConversionStatements \o USCustomaryStatements \o CurrencyStatements, 1).R

\* ---------------------------------------------------------------- state
VARIABLES
    defined_dimensions_by_terms,   \* Dimension.defined_dimensions_by_terms
    defined_dimensions_by_symbol,  \* Dimension.defined_dimensions_by_symbol
    dimension_parsing_pattern,     \* Dimension.parsing_pattern
    defined_metrics_by_terms,      \* Metric.defined_metrics_by_terms
    defined_metrics_by_symbol,     \* Metric.defined_metrics_by_symbol
    base_metric_of,                \* Metric.base_metric_of
    parsing_pattern,               \* Metric.parsing_pattern
    defined_prefixes_by_value,     \* Metric.Prefix.defined_prefixes_by_value
    defined_prefixes_by_symbol,    \* Metric.Prefix.defined_prefixes_by_symbol
    conversions,                   \* Metric.conversions
    metric_order,                  \* iteration order of the Metric term sets built so far
    dimension_order,               \* iteration order of the Dimension term sets built so far
    next_id,                       \* identity of the next object created
    handed_metrics,                \* the Metric instances the program holds
    handed_dimensions,             \* the Dimension instances the program holds
    instance,                      \* the Immutable instance the program assigns to
    last,                          \* the last call and what it returned or raised
    ops                            \* number of calls made

registry_vars == <<defined_dimensions_by_terms, defined_dimensions_by_symbol, dimension_parsing_pattern,
                   defined_metrics_by_terms, defined_metrics_by_symbol, base_metric_of, parsing_pattern,
                   defined_prefixes_by_value, defined_prefixes_by_symbol, conversions,
                   metric_order, dimension_order, next_id>>
vars == <<registry_vars, handed_metrics, handed_dimensions, instance, last, ops>>

\* the class-level tables as one record, as the operators above thread them
Registry ==
    [defined_dimensions_by_terms |-> defined_dimensions_by_terms,
     defined_dimensions_by_symbol |-> defined_dimensions_by_symbol,
     dimension_parsing_pattern |-> dimension_parsing_pattern,
     defined_metrics_by_terms |-> defined_metrics_by_terms,
     defined_metrics_by_symbol |-> defined_metrics_by_symbol,
     base_metric_of |-> base_metric_of,
     parsing_pattern |-> parsing_pattern,
     defined_prefixes_by_value |-> defined_prefixes_by_value,
     defined_prefixes_by_symbol |-> defined_prefixes_by_symbol,
     conversions |-> conversions, metric_order |-> metric_order, dimension_order |-> dimension_order,
     next_id |-> next_id]
Commit(R) ==
    /\ defined_dimensions_by_terms' = R.defined_dimensions_by_terms
    /\ defined_dimensions_by_symbol' = R.defined_dimensions_by_symbol
    /\ dimension_parsing_pattern' = R.dimension_parsing_pattern
    /\ defined_metrics_by_terms' = R.defined_metrics_by_terms
    /\ defined_metrics_by_symbol' = R.defined_metrics_by_symbol
    /\ base_metric_of' = R.base_metric_of
    /\ parsing_pattern' = R.parsing_pattern
    /\ defined_prefixes_by_value' = R.defined_prefixes_by_value
    /\ defined_prefixes_by_symbol' = R.defined_prefixes_by_symbol
    /\ conversions' = R.conversions
    /\ metric_order' = R.metric_order
    /\ dimension_order' = R.dimension_order
    /\ next_id' = R.next_id

\* the module-level names of the catalog
Number == DimBySymbol(Catalog, <<"N">>)
Length == DimBySymbol(Catalog, <<"L">>)
Time == DimBySymbol(Catalog, <<"T">>)
Temperature == DimBySymbol(Catalog, <<"Theta">>)
Speed == DimBySymbol(Catalog, <<"L", "/", "T">>)
Exchange == DimBySymbol(Catalog, <<"exchange">>)
Ten == MetricBySymbol(Catalog, <<"1", "0">>)
One == MetricBySymbol(Catalog, <<"1">>)
Meter == MetricBySymbol(Catalog, <<"m">>)
Second == MetricBySymbol(Catalog, <<"s">>)
Kelvin == MetricBySymbol(Catalog, <<"K">>)
Radian == MetricBySymbol(Catalog, <<"r", "a", "d">>)
Minute == MetricBySymbol(Catalog, <<"m", "i", "n">>)
Celsius == MetricBySymbol(Catalog, <<"deg", "C">>)
Inch == MetricBySymbol(Catalog, <<"\"">>)
Foot == MetricBySymbol(Catalog, <<"'">>)
UnitedStatesDollar == MetricBySymbol(Catalog, <<"U", "S", "D">>)
Euro == MetricBySymbol(Catalog, <<"E", "U", "R">>)

NoLast ==
    [op |-> "import", outcome |-> "ok", metric |-> NoMetric, dimension |-> NoDimension, prefix |-> None,
     terms |-> {}, named |-> FALSE, from |-> NoMetric, to |-> NoMetric, quantity |-> NoQuantity,
     result |-> NoQuantity, text |-> <<>>, origin |-> NoQuantity, chain |-> <<>>, strategy |-> "",
     power |-> 0, left |-> NoMetric, right |-> NoMetric, operands |-> <<>>, conversion |-> NoConversion,
     converse |-> "", attribute |-> "", value |-> "", hashes |-> <<>>]

\* ---------------------------------------------------------------- Immutable
\* the classes derived from Immutable; Frigid is the class of the doctest and
\* of the tests, which declares no __slots__
ImmutableClasses ==
    {"Frigid", "Dimension.Term", "Dimension", "Metric.Term", "Metric.Prefix", "Metric",
     "Metric.ScalarConversion", "Metric.FunctionConversion", "Quantity"}
\* __slots__ of the class, with those of its bases
Slots(class) ==
    CASE class = "Dimension.Term" -> {"frozen", "dimension", "power", "scalar", "power_as_typographical_symbol"}
      [] class = "Dimension" -> {"frozen", "defined", "name", "typographical_symbol", "terms"}
      [] class = "Metric.Term" -> {"frozen", "prefix", "metric", "power", "one", "power_as_typographical_symbol"}
      [] class = "Metric.Prefix" -> {"frozen", "name", "typographical_symbol", "base", "power"}
      [] class = "Metric" -> {"frozen", "defined", "name", "plural_name", "typographical_symbol", "dimension",
                              "terms", "_reduced"}
      [] class = "Metric.ScalarConversion" -> {"frozen", "metric", "scalar_factor"}
      [] class = "Metric.FunctionConversion" -> {"frozen", "metric", "from_metric", "to_metric", "from_function",
                                                 "to_function"}
      [] class = "Quantity" -> {"frozen", "magnitude", "metric"}
      [] OTHER -> {}
\* a class that declares no __slots__ gives its instances a __dict__
HasDict(class) == class = "Frigid"
\* self.__class__.__name__
ClassName(class) ==
    CASE class \in {"Dimension.Term", "Metric.Term"} -> "Term"
      [] class = "Metric.Prefix" -> "Prefix"
      [] class = "Metric.ScalarConversion" -> "ScalarConversion"
      [] class = "Metric.FunctionConversion" -> "FunctionConversion"
      [] OTHER -> class
\* the attribute names a program uses on an instance of the class
AttributeNames(class) == Slots(class) \cup {"frozen", "value"}
AllAttributeNames == UNION {AttributeNames(class) : class \in ImmutableClasses}
\* the values a program assigns
Values == {"x", "y"}
\* an attribute that holds no value
Unset == ""
\* the attributes __init__ leaves without a value
Unassigned(class) == IF class = "Metric" THEN {"_reduced"} ELSE {}

\* the program holds no Immutable instance to assign to
NoInstance == [class |-> "", attributes |-> [name \in AllAttributeNames |-> Unset]]
\* the instance as __new__ returns it, before __init__ has assigned anything
Blank(class) == [NoInstance EXCEPT !.class = class]
\* the instance as the constructor returns it: every attribute assigned, then frozen
Constructed(class) ==
    [class |-> class,
     attributes |-> [name \in AllAttributeNames |->
                        IF name = "frozen" THEN "True"
                        ELSE IF name \in Slots(class) \ Unassigned(class) \/ (HasDict(class) /\ name = "value") THEN "x"
                        ELSE Unset]]

\* the state after the imports that built the registries C, for a program
\* that holds the given Metrics and Dimensions
InitWith(C, metrics, dimensions) ==
    /\ defined_dimensions_by_terms = C.defined_dimensions_by_terms
    /\ defined_dimensions_by_symbol = C.defined_dimensions_by_symbol
    /\ dimension_parsing_pattern = C.dimension_parsing_pattern
    /\ defined_metrics_by_terms = C.defined_metrics_by_terms
    /\ defined_metrics_by_symbol = C.defined_metrics_by_symbol
    /\ base_metric_of = C.base_metric_of
    /\ parsing_pattern = C.parsing_pattern
    /\ defined_prefixes_by_value = C.defined_prefixes_by_value
    /\ defined_prefixes_by_symbol = C.defined_prefixes_by_symbol
    /\ conversions = C.conversions
    /\ metric_order = C.metric_order
    /\ dimension_order = C.dimension_order
    /\ next_id = C.next_id
    /\ handed_metrics = metrics
    /\ handed_dimensions = dimensions
    /\ instance = NoInstance
    /\ last = NoLast
    /\ ops = 0
Init ==
    LET holding(C) == InitWith(C, {MetricBySymbol(C, symbol) : symbol \in {<<"1">>, <<"m">>, <<"s">>}},
                               {DimBySymbol(C, symbol) : symbol \in {<<"L">>, <<"T">>}})
    IN  holding(Catalog)

\* the powers a program raises units to, counted in 1/PowerUnit
Powers == (0 - PowerUnit) .. Whole(MaxPower)

Extend(table, S, order) == IF Cardinality(S) < 2 \/ S \in DOMAIN table THEN table ELSE (S :> order) @@ table
\* the registries with the iteration order of two newly built term sets made
\* known: any order, unless an equal set was iterated before
RevealOrders(R, terms, dimension_terms) ==
    {[R EXCEPT !.metric_order = Extend(@, terms, order),
               !.dimension_order = Extend(@, dimension_terms, dimension_order_)] :
        order \in OrderChoices(R.metric_order, terms),
        dimension_order_ \in OrderChoices(R.dimension_order, dimension_terms)}
\* canonicalize, with the order of the sets it has built made known
Canonicalized(R, terms) ==
    LET revealed(c) == IF c.ok THEN {[c EXCEPT !.R = R1] : R1 \in RevealOrders(c.R, c.terms, c.dimension_terms)}
                       ELSE {c}
    IN  revealed(MetricCanonicalize(R, terms))

\* a derivation Metric(terms = [...]) made by the program
DeriveMetric(op, terms) ==
    /\ ops < MaxOps
    /\ ExactPowers(terms)
    /\ \E c \in Canonicalized(Registry, terms) :
        \E out \in {MetricResolve(c)} :
            /\ Commit(out.R)
            /\ handed_metrics' = IF out.ok THEN handed_metrics \cup {out.result} ELSE handed_metrics
            /\ last' = [NoLast EXCEPT !.op = op, !.outcome = IF out.ok THEN "ok" ELSE "TypeError",
                                      !.metric = out.result, !.terms = IF out.ok THEN c.terms ELSE {}]
    /\ ops' = ops + 1
    /\ UNCHANGED <<handed_dimensions, instance>>

\* self * other
MetricMultiply ==
    \E self, other \in handed_metrics :
        DeriveMetric("Metric.__mul__", <<MInput(None, self, Whole(1)), MInput(None, other, Whole(1))>>)
\* self / other
MetricDivide ==
    \E self, other \in handed_metrics :
        DeriveMetric("Metric.__truediv__", <<MInput(None, self, Whole(1)), MInput(None, other, Whole(0 - 1))>>)
\* self ** power
MetricPower ==
    \E self \in handed_metrics, power \in Powers :
        DeriveMetric("Metric.__pow__", <<MInput(None, self, power)>>)
\* prefix * other
PrefixTimesMetric ==
    \E prefix \in DOMAIN defined_prefixes_by_value, other \in handed_metrics :
        DeriveMetric("Prefix.__mul__", <<MInput(prefix, other, Whole(1))>>)

\* the names a program gives to the Metrics and Dimensions it derives
MetricNames ==
    {[name |-> <<"steradian">>, typographical_symbol |-> <<"s", "r">>],
     [name |-> <<"hertz">>, typographical_symbol |-> <<"H", "z">>]}
DimensionNames ==
    {[name |-> <<"speed">>, typographical_symbol |-> <<>>],
     [name |-> <<"area">>, typographical_symbol |-> <<"A">>]}
\* the prefixes a program defines: new values, and a value defined already
PrefixCatalog ==
    {[name |-> <<"hecto">>, typographical_symbol |-> <<"h">>, value |-> <<10, 2>>],
     [name |-> <<"thousand">>, typographical_symbol |-> <<"t", "h">>, value |-> KiloPrefix],
     [name |-> <<"mebi">>, typographical_symbol |-> <<"M", "i">>, value |-> <<2, 20>>]}

\* Metric(name, typographical_symbol, dimension)
DefineMetric ==
    /\ ops < MaxOps
    /\ \E c \in MetricCatalog, dimension \in handed_dimensions :
        /\ dimension.defined
        /\ dimension.name = c.dimension
        /\ \E out \in {MetricDefined(Registry, c.name, c.typographical_symbol, dimension)} :
               /\ Commit(out.R)
               /\ handed_metrics' = handed_metrics \cup {out.result}
               /\ last' = [NoLast EXCEPT !.op = "Metric", !.named = TRUE, !.metric = out.result,
                                         !.terms = out.result.terms]
    /\ ops' = ops + 1
    /\ UNCHANGED <<handed_dimensions, instance>>

\* Metric(name, typographical_symbol, derivation = m)
NameMetric ==
    /\ ops < MaxOps
    /\ \E n \in MetricNames, derivation \in handed_metrics :
        \E c \in Canonicalized(Registry, MTermsAsInput(Registry, derivation.terms)) :
            \E out \in {MetricNamed(c, n.name, n.typographical_symbol)} :
                /\ Commit(out.R)
                /\ handed_metrics' = IF out.ok THEN handed_metrics \cup {out.result} ELSE handed_metrics
                /\ last' = [NoLast EXCEPT !.op = "Metric(derivation)", !.named = TRUE,
                                          !.outcome = IF out.ok THEN "ok" ELSE "TypeError",
                                          !.metric = out.result, !.terms = out.result.terms]
    /\ ops' = ops + 1
    /\ UNCHANGED <<handed_dimensions, instance>>

\* Dimension(name, typographical_symbol)
DefineDimension ==
    /\ ops < MaxOps
    /\ \E n \in DimensionCatalog :
        \E out \in {DimensionDefined(Registry, n.name, n.typographical_symbol)} :
            /\ Commit(out.R)
            /\ handed_dimensions' = handed_dimensions \cup {out.result}
            /\ last' = [NoLast EXCEPT !.op = "Dimension", !.named = TRUE, !.dimension = out.result,
                                      !.terms = out.result.terms]
    /\ ops' = ops + 1
    /\ UNCHANGED <<handed_metrics, instance>>

ExactDimensionPowers(terms) ==
    \A i \in DOMAIN terms : \A it \in terms[i].dimension.terms : (it.power * terms[i].power) % PowerUnit = 0

\* Dimension(name = ..., derivation = d)
NameDimension ==
    /\ ops < MaxOps
    /\ \E n \in DimensionNames, derivation \in handed_dimensions :
        \E R1 \in RevealOrders(Registry, {}, DimCanonicalize(DTermsAsInput(OrderOf(dimension_order, derivation.terms)))) :
            \E out \in {DimensionDerivedNamed(R1, n.name, n.typographical_symbol, derivation)} :
                /\ Commit(out.R)
                /\ handed_dimensions' = handed_dimensions \cup {out.result}
                /\ last' = [NoLast EXCEPT !.op = "Dimension(derivation)", !.named = TRUE,
                                          !.dimension = out.result, !.terms = out.result.terms]
    /\ ops' = ops + 1
    /\ UNCHANGED <<handed_metrics, instance>>

\* a derivation Dimension(terms = [...]) made by the program
DeriveDimension(op, terms) ==
    /\ ops < MaxOps
    /\ ExactDimensionPowers(terms)
    /\ \E canonical \in {DimCanonicalize(terms)} :
        \E R1 \in RevealOrders(Registry, {}, canonical) :
            \E out \in {DimensionResolve(R1, canonical)} :
                /\ Commit(out.R)
                /\ handed_dimensions' = handed_dimensions \cup {out.result}
                /\ last' = [NoLast EXCEPT !.op = op, !.dimension = out.result, !.terms = canonical]
    /\ ops' = ops + 1
    /\ UNCHANGED <<handed_metrics, instance>>

\* self * other, self / other, self ** power on Dimensions
DimensionMultiply ==
    \E self, other \in handed_dimensions :
        DeriveDimension("Dimension.__mul__", <<DInput(self, Whole(1)), DInput(other, Whole(1))>>)
DimensionDivide ==
    \E self, other \in handed_dimensions :
        DeriveDimension("Dimension.__truediv__", <<DInput(self, Whole(1)), DInput(other, Whole(0 - 1))>>)
DimensionPower ==
    \E self \in handed_dimensions, power \in Powers :
        DeriveDimension("Dimension.__pow__", <<DInput(self, power)>>)

\* Metric.Prefix(name, typographical_symbol, base, power)
DefinePrefix ==
    /\ ops < MaxOps
    /\ \E c \in PrefixCatalog :
        /\ Commit(PrefixNew(Registry, c.name, c.typographical_symbol, c.value))
        /\ last' = [NoLast EXCEPT !.op = "Prefix", !.named = TRUE, !.prefix = c.value]
    /\ ops' = ops + 1
    /\ UNCHANGED <<handed_metrics, handed_dimensions, instance>>

\* p + q and p - q on Prefixes
PrefixPlus ==
    /\ ops < MaxOps
    /\ \E p, q \in DOMAIN defined_prefixes_by_value :
        /\ Commit(PrefixCollect(Registry, PrefixAdd(p, q)))
        /\ last' = [NoLast EXCEPT !.op = "Prefix.__add__", !.prefix = PrefixAdd(p, q), !.operands = <<p, q>>,
                                  !.outcome = IF PrefixAdd(p, q) = NotImplemented THEN "TypeError" ELSE "ok"]
    /\ ops' = ops + 1
    /\ UNCHANGED <<handed_metrics, handed_dimensions, instance>>
PrefixMinus ==
    /\ ops < MaxOps
    /\ \E p, q \in DOMAIN defined_prefixes_by_value :
        /\ Commit(PrefixCollect(Registry, PrefixSub(p, q)))
        /\ last' = [NoLast EXCEPT !.op = "Prefix.__sub__", !.prefix = PrefixSub(p, q), !.operands = <<p, q>>,
                                  !.outcome = IF PrefixSub(p, q) = NotImplemented THEN "TypeError" ELSE "ok"]
    /\ ops' = ops + 1
    /\ UNCHANGED <<handed_metrics, handed_dimensions, instance>>

\* a program that defines and derives units
Next ==
    \/ MetricMultiply \/ MetricDivide \/ MetricPower \/ PrefixTimesMetric
    \/ DefineMetric \/ NameMetric
    \/ DimensionMultiply \/ DimensionDivide \/ DimensionPower
    \/ DefineDimension \/ NameDimension
    \/ DefinePrefix \/ PrefixPlus \/ PrefixMinus
Spec == Init /\ [][Next]_vars

\* ---------------------------------------------------------------- a program that converts
MaxQueries == 1
MaxMagnitude == 2

\* the units the program derives after the imports, each by one
\* Metric(terms = [Term(prefix, metric, power), ...]), Metrics by their symbols:
\* Kilo * Meter, Kilo * Inch, Kilo * Celsius, Meter ** 2, Inch ** 2,
\* Meter / Second, Inch / Minute
ProgramUnits ==
    <<<<<<KiloPrefix, <<"m">>, Whole(1)>>>>,
      <<<<KiloPrefix, <<"\"">>, Whole(1)>>>>,
      <<<<KiloPrefix, <<"deg", "C">>, Whole(1)>>>>,
      <<<<None, <<"m">>, Whole(2)>>>>,
      <<<<None, <<"\"">>, Whole(2)>>>>,
      <<<<None, <<"m">>, Whole(1)>>, <<None, <<"s">>, Whole(0 - 1)>>>>,
      <<<<None, <<"\"">>, Whole(1)>>, <<None, <<"m", "i", "n">>, Whole(0 - 1)>>>>>>
\* the defined Metrics the program converts between
ProgramMetrics ==
    {<<"m">>, <<"\"">>, <<"'">>, <<"s">>, <<"m", "i", "n">>, <<"K">>, <<"deg", "C">>,
     <<"U", "S", "D">>, <<"E", "U", "R">>}
\* the Conversions the program registers itself: Quantity(factor, numerator / denominator)
ProgramConversions ==
    {[factor |-> <<5, 4>>, numerator |-> <<"U", "S", "D">>, denominator |-> <<"E", "U", "R">>]}
\* the magnitudes of the Quantities the program creates
Magnitudes == {<<k * k, 1>> : k \in 1..MaxMagnitude}

RECURSIVE Deriving(_, _, _)
Deriving(acc, units, i) ==
    IF i > Len(units) THEN acc
    ELSE LET held(out) == [R |-> out.R, metrics |-> acc.metrics \cup {out.result}]
         IN  Deriving(held(MetricFromTerms(acc.R, [j \in DOMAIN units[i] |->
                               MInput(units[i][j][1], MetricBySymbol(acc.R, units[i][j][2]), units[i][j][3])])),
                      units, i + 1)

ConversionInit ==
    LET holding(P) == InitWith(P.R, P.metrics \cup {MetricBySymbol(P.R, symbol) : symbol \in ProgramMetrics}, {})
    IN  holding(Deriving([R |-> Catalog, metrics |-> {}], ProgramUnits, 1))

\* the registries once find_conversion has iterated the terms of
\* reduce(from_metric) / reduce(to_metric). The order of the iteration shows
\* only in the sign of highest_power, and only where range(highest_power, 1, -1)
\* is not empty for one of the signs; it is made known in that case.
Iterated(R, from_metric, to_metric) ==
    LET decisive(terms) ==
            \E t, u \in terms : /\ t.power = 0 - u.power
                                /\ t.power >= Whole(2)
                                /\ \A v \in terms : Abs(v.power) <= t.power
        revealed(terms) == IF decisive(terms) THEN RevealOrders(R, terms, {}) ELSE {R}
        ratio(reduced_from, reduced_to) == revealed(QuantityDiv(R, reduced_from, reduced_to).metric.terms)
    IN  ratio(MetricReduce(R, from_metric), MetricReduce(R, to_metric))

\* Metric.ScalarConversion(Quantity(factor, numerator / denominator)), before any other call
RegisterConversion ==
    /\ last.op = "import"
    /\ \E c \in ProgramConversions :
        \E out \in {ScalarConversion(Registry, c.factor, MetricBySymbol(Registry, c.numerator),
                                     MetricBySymbol(Registry, c.denominator))} :
            /\ out.ok
            /\ Commit(out.R)
            /\ last' = [NoLast EXCEPT !.op = "ScalarConversion"]
    /\ UNCHANGED <<handed_metrics, handed_dimensions, instance, ops>>

\* the Quantities the program converts: a new Quantity, or the result of its
\* last conversion
Held ==
    IF last.op = "Quantity.to" /\ last.outcome = "ok"
    THEN {[quantity |-> last.result, origin |-> last.origin, chain |-> last.chain]}
    ELSE IF ops = 0
    THEN {[quantity |-> Quantity(x, metric), origin |-> Quantity(x, metric), chain |-> <<>>] :
             x \in Magnitudes, metric \in handed_metrics}
    ELSE {}

\* quantity.to(desired_metric), given Quantity.to
Converting(to(_, _, _)) ==
    /\ ops < MaxOps
    /\ \E held \in Held, desired_metric \in handed_metrics :
        \E R1 \in Iterated(Registry, held.quantity.metric, desired_metric) :
            \E out \in {to(R1, held.quantity, desired_metric)} :
                LET built(b) == [metric |-> b.result, R |-> b.R]
                    returned == IF out.outcome # "ok" THEN {[metric |-> NoMetric, R |-> R1]}
                                ELSE IF "id" \in DOMAIN out.quantity.metric THEN {[metric |-> out.quantity.metric, R |-> R1]}
                                ELSE {built(MetricResolve(c)) :
                                         c \in Canonicalized(R1, MTermsAsInput(R1, out.quantity.metric.terms))}
                IN  /\ out.outcome # "inexact"
                    /\ \E result \in returned :
                        /\ Commit(result.R)
                        /\ last' = [NoLast EXCEPT !.op = "Quantity.to", !.outcome = out.outcome,
                                                  !.strategy = out.strategy,
                                                  !.from = held.quantity.metric, !.to = desired_metric,
                                                  !.quantity = held.quantity,
                                                  !.result = Quantity(out.quantity.magnitude, result.metric),
                                                  !.origin = held.origin, !.chain = Append(held.chain, desired_metric)]
    /\ ops' = ops + 1
    /\ UNCHANGED <<handed_metrics, handed_dimensions, instance>>

ConvertQuantity == Converting(QuantityTo)

\* a call on two Metrics that returns no Quantity
Query(op, call(_, _, _)) ==
    /\ ops < MaxQueries
    /\ \E self, other \in handed_metrics :
        \E R1 \in Iterated(Registry, self, other) :
            /\ Commit(R1)
            /\ last' = [NoLast EXCEPT !.op = op, !.outcome = call(R1, self, other), !.from = self, !.to = other]
    /\ ops' = ops + 1
    /\ UNCHANGED <<handed_metrics, handed_dimensions, instance>>

\* self.to(other): "ok" when a conversion is returned
ResolveTo ==
    LET call(R, self, other) ==
            LET outcome(found) == IF IsRaised(found) THEN found.kind ELSE "ok"
            IN  outcome(MetricTo(R, self, other))
    IN  Query("Metric.to", call)
\* self.is_convertible_to(other)
TestConvertible == Query("Metric.is_convertible_to", IsConvertibleTo)
\* Metric.find_conversion(self, other): "ok" when a conversion is returned
FindDirectly ==
    LET call(R, self, other) ==
            LET outcome(found) == IF IsRaised(found) \/ found.kind = "None" THEN found.kind ELSE "ok"
            IN  outcome(FindConversion(R, self, other))
    IN  Query("Metric.find_conversion", call)

\* conversion(quantity), for a registered Conversion and a new Quantity
CallConversion ==
    /\ ops < MaxQueries
    /\ \E conversion \in Range(conversions), magnitude \in Magnitudes, metric \in handed_metrics :
        \E out \in {ConversionCall(Registry, conversion, Quantity(magnitude, metric))} :
            LET built(b) == [metric |-> b.result, R |-> b.R]
                returned == IF ~out.ok THEN {[metric |-> NoMetric, R |-> Registry]}
                            ELSE IF "id" \in DOMAIN out.quantity.metric
                            THEN {[metric |-> out.quantity.metric, R |-> Registry]}
                            ELSE {built(MetricResolve(c)) :
                                     c \in Canonicalized(Registry, MTermsAsInput(Registry, out.quantity.metric.terms))}
            IN  \E result \in returned :
                    /\ Commit(result.R)
                    /\ last' = [NoLast EXCEPT !.op = "Conversion.__call__",
                                              !.outcome = IF out.ok THEN "ok" ELSE "MetricConversionError",
                                              !.conversion = conversion,
                                              !.quantity = Quantity(magnitude, metric),
                                              !.result = Quantity(out.quantity.magnitude, result.metric)]
    /\ ops' = ops + 1
    /\ UNCHANGED <<handed_metrics, handed_dimensions, instance>>

\* Quantity.__eq__ between two Quantities: True, False, or the exception raised
QuantityEq(R, self, other) ==
    LET truth(equal) == IF equal THEN "True" ELSE "False"
        compared(converted) ==
            IF converted.outcome = "ok" THEN truth(self.magnitude = converted.quantity.magnitude)
            ELSE converted.outcome
        converting(convertible) ==
            IF convertible = "True" THEN compared(QuantityTo(R, other, self.metric))
            ELSE convertible
    IN  IF MetricEq(R, self.metric, other.metric) THEN truth(self.magnitude = other.magnitude)
        ELSE converting(IsConvertibleTo(R, other.metric, self.metric))

\* the Quantities the program compares: those it creates, and a thousand of
\* each Metric that is its own only term
ComparedQuantities ==
    {Quantity(x, metric) : x \in Magnitudes, metric \in handed_metrics}
        \cup {Quantity(RatPow(KiloPrefix[1], KiloPrefix[2]), metric) :
                 metric \in {held \in handed_metrics : held.terms = {MTerm(OnePrefix, held.name, Whole(1))}}}
\* self == other and other == self, given Quantity.__eq__
Comparing(eq(_, _, _)) ==
    /\ ops < MaxQueries
    /\ \E self \in ComparedQuantities, other \in ComparedQuantities :
        \E R1 \in Iterated(Registry, other.metric, self.metric) :
            \E equal \in {eq(R1, self, other)}, converse \in {eq(R1, other, self)} :
                /\ equal # "inexact" /\ converse # "inexact"
                /\ Commit(R1)
                /\ last' = [NoLast EXCEPT !.op = "Quantity.__eq__", !.outcome = equal, !.converse = converse,
                                          !.quantity = self, !.origin = other]
    /\ ops' = ops + 1
    /\ UNCHANGED <<handed_metrics, handed_dimensions, instance>>

CompareQuantities == Comparing(QuantityEq)

\* a program that compares Quantities
EqualityNext == RegisterConversion \/ CompareQuantities
EqualitySpec == ConversionInit /\ [][EqualityNext]_vars

\* a program that calls the registered Conversions
CallNext == RegisterConversion \/ CallConversion
CallSpec == ConversionInit /\ [][CallNext]_vars

ConversionNext == RegisterConversion \/ ConvertQuantity \/ ResolveTo \/ TestConvertible \/ FindDirectly
ConversionSpec == ConversionInit /\ [][ConversionNext]_vars

\* the units of a program that converts rates: Meter / Second, Inch / Minute,
\* Meter / Second ** 2, Inch / Minute ** 2, (Kilo * Inch) / Minute,
\* (Kilo * Meter) / Second
RateUnits ==
    <<<<<<None, <<"m">>, Whole(1)>>, <<None, <<"s">>, Whole(0 - 1)>>>>,
      <<<<None, <<"\"">>, Whole(1)>>, <<None, <<"m", "i", "n">>, Whole(0 - 1)>>>>,
      <<<<None, <<"m">>, Whole(1)>>, <<None, <<"s">>, Whole(0 - 2)>>>>,
      <<<<None, <<"\"">>, Whole(1)>>, <<None, <<"m", "i", "n">>, Whole(0 - 2)>>>>,
      <<<<KiloPrefix, <<"\"">>, Whole(1)>>, <<None, <<"m", "i", "n">>, Whole(0 - 1)>>>>,
      <<<<KiloPrefix, <<"m">>, Whole(1)>>, <<None, <<"s">>, Whole(0 - 1)>>>>>>
RateInit ==
    LET holding(P) == InitWith(P.R, P.metrics, {})
    IN  holding(Deriving([R |-> Catalog, metrics |-> {}], RateUnits, 1))
\* a program that converts rates
RateNext == ConvertQuantity \/ TestConvertible
RateSpec == RateInit /\ [][RateNext]_vars

\* ---------------------------------------------------------------- a program that parses
\* the characters of the model's symbols that re.escape writes a backslash before
EscapedCharacters == {"^", "-", "."}
\* len(re.escape(typographical_symbol))
EscapedLength(symbol) == Len(symbol) + Cardinality({i \in DOMAIN symbol : symbol[i] \in EscapedCharacters})
\* text[i:].startswith(symbol)
StartsWith(text, i, symbol) ==
    /\ i + Len(symbol) - 1 <= Len(text)
    /\ SubSeq(text, i, i + Len(symbol) - 1) = symbol

RECURSIVE TotalLength(_)
TotalLength(strings) ==
    IF strings = {} THEN 0
    ELSE LET string == CHOOSE string \in strings : TRUE
         IN  EscapedLength(string) + TotalLength(strings \ {string})
\* tokens.sort(key = len, reverse = True); tokens of equal length are
\* different strings
RECURSIVE TokensByLength(_)
TokensByLength(tokens) ==
    IF tokens = {} THEN <<>>
    ELSE LET longest == CHOOSE t \in tokens : \A u \in tokens : u.length <= t.length
         IN  <<longest>> \o TokensByLength(tokens \ {longest})
\* an alternative of the pattern: the symbol, the strings of the negative
\* lookahead "(?!a|b)" after it, and the length of the alternative's text
Token(symbol, conflicting_strings) ==
    [symbol |-> symbol, conflicting_strings |-> conflicting_strings,
     length |-> EscapedLength(symbol)
                + (IF conflicting_strings = {} THEN 0
                   ELSE 1 + 1 + 1 + TotalLength(conflicting_strings) + Cardinality(conflicting_strings))]

\* Metric.rebuild_parsing_pattern
MetricRebuildParsingPattern(R) ==
    LET metric_tokens == DOMAIN R.defined_metrics_by_symbol
        resolve_conflicts_between_prefix_and_metric(prefix) ==
            {SubSeq(metric_token, Len(prefix) + 1, Len(metric_token)) :
                metric_token \in {t \in metric_tokens : EscapedLength(t) > 1 /\ StartsWith(t, 1, prefix)}}
    IN  [R EXCEPT !.parsing_pattern =
            [built |-> TRUE,
             prefix_tokens |-> TokensByLength({Token(prefix, resolve_conflicts_between_prefix_and_metric(prefix)) :
                                                  prefix \in DOMAIN R.defined_prefixes_by_symbol}),
             metric_tokens |-> TokensByLength({Token(symbol, {}) : symbol \in metric_tokens})]]
\* Dimension.rebuild_parsing_pattern
DimensionRebuildParsingPattern(R) ==
    [R EXCEPT !.dimension_parsing_pattern =
        [built |-> TRUE,
         dimension_tokens |-> TokensByLength({Token(symbol, {}) : symbol \in DOMAIN R.defined_dimensions_by_symbol})]]

\* the characters of "[\-\.\d]"
PowerCharacters == {"-", "."} \cup {Digits(n)[1] : n \in 0..9}
\* the first alternative of tokens that matches text at i (0: none does)
SymbolAt(tokens, text, i) ==
    LET hits == {k \in DOMAIN tokens : StartsWith(text, i, tokens[k].symbol)}
    IN  IF hits = {} THEN 0 ELSE CHOOSE k \in hits : \A h \in hits : k <= h
\* the first alternative of the optional prefix group after which the
\* lookahead holds and a symbol of metric_tokens follows (0: none does)
PrefixAt(prefix_tokens, metric_tokens, text, i) ==
    LET hits == {k \in DOMAIN prefix_tokens :
                    /\ StartsWith(text, i, prefix_tokens[k].symbol)
                    /\ \A string \in prefix_tokens[k].conflicting_strings :
                            ~StartsWith(text, i + Len(prefix_tokens[k].symbol), string)
                    /\ SymbolAt(metric_tokens, text, i + Len(prefix_tokens[k].symbol)) # 0}
    IN  IF hits = {} THEN 0 ELSE CHOOSE k \in hits : \A h \in hits : k <= h
\* the optional power group at i: a superscript, or "^" and the longest run
\* of power characters; the superscripts of negative powers are never
\* written by identify and are not modelled
PowerAt(text, i) ==
    IF i <= Len(text) /\ <<text[i]>> \in Range(ExponentTypographicalSymbols) THEN <<text[i]>>
    ELSE IF i < Len(text) /\ text[i] = "^" /\ text[i + 1] \in PowerCharacters
    THEN SubSeq(text, i, CHOOSE j \in (i + 1)..Len(text) :
                             /\ \A k \in (i + 1)..j : text[k] \in PowerCharacters
                             /\ j = Len(text) \/ text[j + 1] \notin PowerCharacters)
    ELSE <<>>
\* pattern.findall(text) from i on: the groups of each match; a character
\* at which nothing matches is skipped
RECURSIVE FindAll(_, _, _, _)
FindAll(prefix_tokens, metric_tokens, text, i) ==
    IF i > Len(text) THEN <<>>
    ELSE LET matched(prefix, symbol) ==
                 LET powered(power) ==
                         <<[prefix |-> prefix, symbol |-> symbol, power |-> power]>>
                             \o FindAll(prefix_tokens, metric_tokens, text,
                                        i + Len(prefix) + Len(symbol) + Len(power))
                 IN  powered(PowerAt(text, i + Len(prefix) + Len(symbol)))
             after(prefix) ==
                 LET found(k) == IF k = 0 THEN FindAll(prefix_tokens, metric_tokens, text, i + 1)
                                 ELSE matched(prefix, metric_tokens[k].symbol)
                 IN  found(SymbolAt(metric_tokens, text, i + Len(prefix)))
             start(k) == after(IF k = 0 THEN <<>> ELSE prefix_tokens[k].symbol)
         IN  start(PrefixAt(prefix_tokens, metric_tokens, text, i))

\* whether int(text) returns, for a text of power characters
IsIntText(text) ==
    /\ text # <<>>
    /\ \A k \in DOMAIN text : text[k] # "." /\ (text[k] = "-" => k = 1)
    /\ text # <<"-">>
RECURSIVE IntOf(_, _, _)
IntOf(text, i, value) ==
    IF i > Len(text) THEN value
    ELSE IF text[i] = "-" THEN 0 - IntOf(text, i + 1, value)
    ELSE IntOf(text, i + 1, 10 * value + (CHOOSE n \in 0..9 : Digits(n) = <<text[i]>>))
\* the power a matched power group stands for: powers[matched_power], or
\* int(matched_power.replace("^", "")), which raises ValueError
MatchedPower(matched_power) ==
    IF matched_power \in Range(ExponentTypographicalSymbols)
    THEN [raised |-> "", power |-> (CHOOSE n \in 0..9 : ExponentTypographicalSymbols[n + 1] = matched_power)]
    ELSE IF IsIntText(Tail(matched_power)) THEN [raised |-> "", power |-> IntOf(Tail(matched_power), 1, 0)]
    ELSE [raised |-> "ValueError", power |-> 0]

\* Metric.symbol_string_to_terms: the Terms as the input of Metric(terms =
\* ...), each power multiplied by sign; every symbol matched is a key of the
\* tables the pattern was built from
MetricSymbolStringToTerms(R, symbol_string, sign) ==
    LET termed(R1, matches) ==
            [raised |-> IF \E k \in DOMAIN matches : MatchedPower(matches[k].power).raised # ""
                        THEN "ValueError" ELSE "",
             R |-> R1,
             terms |-> [k \in DOMAIN matches |->
                          MInput(IF matches[k].prefix = <<>> THEN None
                                 ELSE <<R1.defined_prefixes_by_symbol[matches[k].prefix].base,
                                        R1.defined_prefixes_by_symbol[matches[k].prefix].power>>,
                                 R1.defined_metrics_by_symbol[matches[k].symbol],
                                 Whole(sign * MatchedPower(matches[k].power).power))]]
        scanned(R1) == termed(R1, FindAll(R1.parsing_pattern.prefix_tokens, R1.parsing_pattern.metric_tokens,
                                          symbol_string, 1))
    IN  IF symbol_string = <<>> THEN [raised |-> "", R |-> R, terms |-> <<>>]
        ELSE scanned(IF R.parsing_pattern.built THEN R ELSE MetricRebuildParsingPattern(R))
\* Dimension.symbol_string_to_terms
DimensionSymbolStringToTerms(R, symbol_string, sign) ==
    LET termed(R1, matches) ==
            [raised |-> IF \E k \in DOMAIN matches : MatchedPower(matches[k].power).raised # ""
                        THEN "ValueError" ELSE "",
             R |-> R1,
             terms |-> [k \in DOMAIN matches |->
                          DInput(R1.defined_dimensions_by_symbol[matches[k].symbol],
                                 Whole(sign * MatchedPower(matches[k].power).power))]]
        scanned(R1) == termed(R1, FindAll(<<>>, R1.dimension_parsing_pattern.dimension_tokens, symbol_string, 1))
    IN  IF symbol_string = <<>> THEN [raised |-> "", R |-> R, terms |-> <<>>]
        ELSE scanned(IF R.dimension_parsing_pattern.built THEN R ELSE DimensionRebuildParsingPattern(R))

\* typographical_symbol.split("/")
Split(text) ==
    LET slashes == {i \in DOMAIN text : text[i] = "/"}
        first == IF slashes = {} THEN Len(text) + 1 ELSE CHOOSE i \in slashes : \A j \in slashes : i <= j
        second == IF slashes \ {first} = {} THEN Len(text) + 1
                  ELSE CHOOSE i \in slashes \ {first} : \A j \in slashes \ {first} : i <= j
    IN  [len |-> Cardinality(slashes) + 1, numerator |-> SubSeq(text, 1, first - 1),
         denominator |-> SubSeq(text, first + 1, second - 1)]
Parsed(outcome, result, R) == [outcome |-> outcome, result |-> result, R |-> R]

\* Metric.parse(typographical_symbol): what it may return or raise, with
\* the registries it leaves
MetricParse(R, typographical_symbol) ==
    LET parts == Split(typographical_symbol)
        constructed(out) == Parsed(IF out.ok THEN "ok" ELSE "TypeError", out.result, out.R)
        denominated(numerator_terms, denominator_terms) ==
            IF denominator_terms.raised # "" THEN {Parsed(denominator_terms.raised, NoMetric, denominator_terms.R)}
            ELSE IF numerator_terms.terms \o denominator_terms.terms = <<>>
            THEN {Parsed("MeasurementParsingException", NoMetric, denominator_terms.R)}
            ELSE {constructed(MetricResolve(c)) :
                     c \in Canonicalized(denominator_terms.R, numerator_terms.terms \o denominator_terms.terms)}
        numerated(numerator_terms) ==
            IF numerator_terms.raised # "" THEN {Parsed(numerator_terms.raised, NoMetric, numerator_terms.R)}
            ELSE denominated(numerator_terms,
                             MetricSymbolStringToTerms(numerator_terms.R,
                                                       IF parts.len = 1 + 1 THEN parts.denominator ELSE <<>>, 0 - 1))
    IN  IF typographical_symbol = <<"1">> THEN {Parsed("ok", One, R)}
        ELSE IF typographical_symbol = <<"1", "0">> THEN {Parsed("ok", Ten, R)}
        ELSE numerated(MetricSymbolStringToTerms(R, parts.numerator, 1))
\* Dimension.parse(typographical_symbol)
DimensionParse(R, typographical_symbol) ==
    LET parts == Split(typographical_symbol)
        constructed(canonical, R1) ==
            {Parsed("ok", out.result, out.R) : out \in {DimensionResolve(R2, canonical) : R2 \in RevealOrders(R1, {}, canonical)}}
        denominated(numerator_terms, denominator_terms) ==
            IF denominator_terms.raised # "" THEN {Parsed(denominator_terms.raised, NoDimension, denominator_terms.R)}
            ELSE IF numerator_terms.terms \o denominator_terms.terms = <<>>
            THEN {Parsed("MeasurementParsingException", NoDimension, denominator_terms.R)}
            ELSE constructed(DimCanonicalize(numerator_terms.terms \o denominator_terms.terms), denominator_terms.R)
        numerated(numerator_terms) ==
            IF numerator_terms.raised # "" THEN {Parsed(numerator_terms.raised, NoDimension, numerator_terms.R)}
            ELSE denominated(numerator_terms,
                             DimensionSymbolStringToTerms(numerator_terms.R,
                                                          IF parts.len = 1 + 1 THEN parts.denominator ELSE <<>>, 0 - 1))
    IN  numerated(DimensionSymbolStringToTerms(R, parts.numerator, 1))

\* Metric.parse(six.text_type(metric)) for a Metric the program holds
ParseMetric ==
    /\ ops < MaxOps
    /\ \E metric \in handed_metrics :
        \E out \in MetricParse(Registry, metric.typographical_symbol) :
            /\ Commit(out.R)
            /\ last' = [NoLast EXCEPT !.op = "Metric.parse", !.outcome = out.outcome,
                                      !.text = metric.typographical_symbol, !.from = metric, !.metric = out.result]
    /\ ops' = ops + 1
    /\ UNCHANGED <<handed_metrics, handed_dimensions, instance>>
\* Dimension.parse(six.text_type(dimension)) for a Dimension the program holds
ParseDimension ==
    /\ ops < MaxOps
    /\ \E dimension \in handed_dimensions :
        \E out \in DimensionParse(Registry, dimension.typographical_symbol) :
            /\ Commit(out.R)
            /\ last' = [NoLast EXCEPT !.op = "Dimension.parse", !.outcome = out.outcome,
                                      !.text = dimension.typographical_symbol, !.from = dimension,
                                      !.dimension = out.result]
    /\ ops' = ops + 1
    /\ UNCHANGED <<handed_metrics, handed_dimensions, instance>>

\* the texts a program passes to Metric.parse and to Dimension.parse: a
\* prefixed symbol, a symbol followed by a character of no token, characters
\* of no token alone, a power that is no number, two solidi
MetricTexts ==
    {<<"k", "m">>, <<"m", "x">>, <<"x">>, <<"m", "^", "x">>, <<"m", "/", "s", "/", "s">>}
DimensionTexts ==
    {<<"L", "T">>, <<"L", "x">>, <<"A", "S", "D">>, <<"L", "^", "x">>, <<"L", "/", "T", "/", "T">>}
\* Metric.parse(text)
ParseMetricText ==
    /\ ops < MaxOps
    /\ \E text \in MetricTexts :
        \E out \in MetricParse(Registry, text) :
            /\ Commit(out.R)
            /\ last' = [NoLast EXCEPT !.op = "Metric.parse(text)", !.outcome = out.outcome,
                                      !.text = text, !.metric = out.result]
    /\ ops' = ops + 1
    /\ UNCHANGED <<handed_metrics, handed_dimensions, instance>>
\* Dimension.parse(text)
ParseDimensionText ==
    /\ ops < MaxOps
    /\ \E text \in DimensionTexts :
        \E out \in DimensionParse(Registry, text) :
            /\ Commit(out.R)
            /\ last' = [NoLast EXCEPT !.op = "Dimension.parse(text)", !.outcome = out.outcome,
                                      !.text = text, !.dimension = out.result]
    /\ ops' = ops + 1
    /\ UNCHANGED <<handed_metrics, handed_dimensions, instance>>

\* Metric.Prefix.define(prefix), for a Prefix the program has got hold of
RedefinePrefix ==
    /\ ops < MaxOps
    /\ \E v \in DOMAIN defined_prefixes_by_value :
        \E out \in {PrefixDefineCall(Registry, defined_prefixes_by_value[v])} :
            /\ Commit(out.R)
            /\ last' = [NoLast EXCEPT !.op = "Prefix.define", !.prefix = v,
                                      !.outcome = IF out.ok THEN "ok" ELSE "KeyError"]
    /\ ops' = ops + 1
    /\ UNCHANGED <<handed_metrics, handed_dimensions, instance>>

\* a program that defines, derives and parses units
ParsingNext == Next \/ ParseMetric \/ ParseDimension \/ ParseMetricText \/ ParseDimensionText
ParsingSpec == Init /\ [][ParsingNext]_vars

\* ---------------------------------------------------------------- floating-point powers
\* a Python float is a double: a significand of MantissaBits bits, least
\* significant first, times two to the exponent
MantissaBits == 52 + 1
Zeros(k) == [i \in 1 .. k |-> 0]
Bit(bits, i) == IF i \in 1 .. Len(bits) THEN bits[i] ELSE 0
\* the carry into bit i of the sum of two bit sequences
Carry(a, b, i) ==
    \E j \in 1 .. i - 1 :
        /\ Bit(a, j) + Bit(b, j) = 2
        /\ \A k \in j + 1 .. i - 1 : Bit(a, k) + Bit(b, k) >= 1
BitsAdd(a, b) ==
    LET length == (IF Len(a) > Len(b) THEN Len(a) ELSE Len(b)) + 1
        sum == [i \in 1 .. length |-> (Bit(a, i) + Bit(b, i) + (IF Carry(a, b, i) THEN 1 ELSE 0)) % 2]
    IN  IF b = <<>> THEN a ELSE SubSeq(sum, 1, IF sum[length] = 0 THEN length - 1 ELSE length)
\* an exact result rounded to the nearest double, ties to even
FloatRound(bits, exponent) ==
    LET drop == Len(bits) - MantissaBits
        kept == SubSeq(bits, drop + 1, Len(bits))
        up == bits[drop] = 1 /\ (kept[1] = 1 \/ \E i \in 1 .. drop - 1 : bits[i] = 1)
        rounded == IF up THEN BitsAdd(kept, <<1>>) ELSE kept
    IN  IF drop <= 0 THEN [bits |-> Zeros(0 - drop) \o bits, exponent |-> exponent + drop]
        ELSE IF Len(rounded) > MantissaBits THEN [bits |-> Tail(rounded), exponent |-> exponent + drop + 1]
        ELSE [bits |-> rounded, exponent |-> exponent + drop]
\* 2^i modulo n
RECURSIVE TwoToThe(_, _)
TwoToThe(i, n) ==
    IF i = 0 THEN 1 % n
    ELSE LET half == TwoToThe(i \div 2, n) IN (half * half * (1 + (i % 2))) % n
\* the binary digit of 1/n at place i after the point
BinaryPlace(n, i) == (2 * TwoToThe(i - 1, n)) \div n
Leading(n) == CHOOSE i \in 1 .. MantissaBits : BinaryPlace(n, i) = 1 /\ \A j \in 1 .. i - 1 : BinaryPlace(n, j) = 0
\* the float 1.0 / n
Reciprocal(n) ==
    LET last_place == Leading(n) + MantissaBits
    IN  FloatRound([i \in 1 .. MantissaBits + 2 |->
                       IF i = 1 THEN (IF TwoToThe(last_place, n) = 0 THEN 0 ELSE 1)
                       ELSE BinaryPlace(n, last_place + 2 - i)],
                   0 - (last_place + 1))
\* the float augend + addend; adding to 0 is exact
FloatAdd(augend, addend) ==
    LET exponent == IF augend.exponent < addend.exponent THEN augend.exponent ELSE addend.exponent
    IN  IF augend.bits = <<>> THEN addend
        ELSE FloatRound(BitsAdd(Zeros(augend.exponent - exponent) \o augend.bits,
                                Zeros(addend.exponent - exponent) \o addend.bits), exponent)
RECURSIVE BitsTimes(_, _)
BitsTimes(multiplicand, times) ==
    IF times = 0 THEN <<>> ELSE BitsAdd(multiplicand, BitsTimes(multiplicand, times - 1))
\* the float product of a float and a positive integer
FloatTimes(float, times) == FloatRound(BitsTimes(float.bits, times), float.exponent)
\* the power 0 that canonicalize starts every collected term with
FloatZero == [bits |-> <<>>, exponent |-> 0]
\* 0 + float + ... + float, added one at a time
RECURSIVE FloatSum(_, _)
FloatSum(float, times) == IF times = 0 THEN FloatZero ELSE FloatAdd(FloatSum(float, times - 1), float)
\* the float is 1.0, which a Term takes to the integer 1
FloatIsOne(float) == float.exponent = 0 - (MantissaBits - 1) /\ float.bits = Zeros(MantissaBits - 1) \o <<1>>

\* ---------------------------------------------------------------- a program that computes with units
\* Metric(terms = [...]): every outcome the iteration order of the sets allows
Derived(R, terms) == {MetricResolve(c) : c \in Canonicalized(R, terms)}
\* the integer powers a program raises Metrics to
IntegerPowers == {Whole(n) : n \in (0 - 1) .. MaxPower}
\* the Metrics a program computes with: those it holds, and Ten
Operands == handed_metrics \cup {MetricBySymbol(Registry, <<"1", "0">>)}

\* ((prefix * metric) ** power).reduce() and (metric ** power).reduce()
ReducePrefixedPower ==
    /\ ops < MaxOps
    /\ \E prefix \in DOMAIN defined_prefixes_by_value, metric \in Operands, power \in IntegerPowers :
        \E prefixed \in Derived(Registry, <<MInput(prefix, metric, Whole(1))>>) :
            \E raised \in (IF prefixed.ok THEN Derived(prefixed.R, <<MInput(None, prefixed.result, power)>>)
                           ELSE {prefixed}) :
                \E plain \in (IF raised.ok THEN Derived(raised.R, <<MInput(None, metric, power)>>) ELSE {raised}) :
                    /\ Commit(plain.R)
                    /\ last' = [NoLast EXCEPT !.op = "Metric.reduce",
                                              !.outcome = IF plain.ok THEN "ok" ELSE "TypeError",
                                              !.prefix = prefix, !.from = metric, !.power = power,
                                              !.left = raised.result, !.right = plain.result,
                                              !.result = MetricReduceScale(plain.R, raised.result),
                                              !.origin = MetricReduceScale(plain.R, plain.result)]
    /\ ops' = ops + 1
    /\ UNCHANGED <<handed_metrics, handed_dimensions, instance>>

\* Metric.__eq__, with the magnitudes of the reduced Metrics kept as exponents
MetricEquals(R, self, other) ==
    LET equal(reduced_self, reduced_other) ==
            /\ reduced_self.scale = reduced_other.scale
            /\ reduced_self.metric.terms = reduced_other.metric.terms
    IN  equal(MetricReduceScale(R, self), MetricReduceScale(R, other))
\* self * other and self / other: every outcome the iteration orders allow
Product(R, self, other) == Derived(R, <<MInput(None, self, Whole(1)), MInput(None, other, Whole(1))>>)
Quotient(R, self, other) == Derived(R, <<MInput(None, self, Whole(1)), MInput(None, other, Whole(0 - 1))>>)
\* left == right, for the two sides of a law computed for a subject
Compared(law, subject, left, right) ==
    /\ Commit(right.R)
    /\ last' = [NoLast EXCEPT !.op = law, !.from = subject, !.left = left.result, !.right = right.result,
                              !.outcome = IF ~(left.ok /\ right.ok) THEN "TypeError"
                                          ELSE IF MetricEquals(right.R, left.result, right.result) THEN "True"
                                          ELSE "False"]
    /\ ops' = ops + 1
    /\ UNCHANGED <<handed_metrics, handed_dimensions, instance>>
\* the Metric a computation starts from, as an outcome
Given(R, metric) == [ok |-> TRUE, result |-> metric, R |-> R]
\* the two values every subject is multiplied with
fake_value == MetricBySymbol(Registry, <<"m">>)
another_fake_value == MetricBySymbol(Registry, <<"s">>)
\* subject * fake_value == fake_value * subject
Commutative ==
    /\ ops < MaxOps
    /\ \E subject \in Operands :
           \E left \in Product(Registry, subject, fake_value) :
               \E right \in Product(left.R, fake_value, subject) :
                   Compared("commutative", subject, left, right)
\* (subject * fake_value) * another_fake_value == subject * (fake_value * another_fake_value)
Associative ==
    /\ ops < MaxOps
    /\ \E subject \in Operands :
           \E first \in Product(Registry, subject, fake_value) :
               \E left \in Product(first.R, first.result, another_fake_value) :
                   \E second \in Product(left.R, fake_value, another_fake_value) :
                       \E right \in Product(second.R, subject, second.result) :
                           Compared("associative", subject, left, right)
\* One * subject == subject, subject * One == subject, subject / One == subject
IdentityInMultiplication ==
    /\ ops < MaxOps
    /\ \E subject \in Operands :
           \E left \in Product(Registry, One, subject) \cup Product(Registry, subject, One)
                           \cup Quotient(Registry, subject, One) :
               Compared("identity_in_multiplication", subject, left, Given(left.R, subject))
\* subject * (One / subject) == One, subject / subject == One
Inverse ==
    /\ ops < MaxOps
    /\ \E subject \in Operands :
           \E inverse \in Quotient(Registry, One, subject) :
               \E left \in Product(inverse.R, subject, inverse.result) \cup Quotient(Registry, subject, subject) :
                   Compared("inverse", subject, left, Given(left.R, One))

\* the roots a program takes
MaxRoot == 6
Roots == 2 .. MaxRoot
\* the Metrics that are their own only term, to the first power
Atoms == {metric \in handed_metrics : metric.terms = {MTerm(OnePrefix, metric.name, Whole(1))}}
\* the power canonicalize collects for (metric ** n) ** (1.0 / n): metric ** n
\* is flattened into n terms of power 1.0 / n, added one at a time
PowerOfRootOfPower == [n \in Roots |-> FloatSum(Reciprocal(n), n)]
\* the power canonicalize collects for (metric ** (1.0 / n)) ** n: the
\* fractional power 1.0 / n times the outer power n
PowerOfPowerOfRoot == [n \in Roots |-> FloatTimes(Reciprocal(n), n)]
\* metric == a Metric whose only term is metric to the given float power
Recovered(law, metric, n, power) ==
    /\ last' = [NoLast EXCEPT !.op = law, !.from = metric, !.power = n,
                              !.outcome = IF FloatIsOne(power) THEN "True" ELSE "False"]
    /\ ops' = ops + 1
    /\ UNCHANGED <<registry_vars, handed_metrics, handed_dimensions, instance>>
\* (metric ** n) ** (1.0 / n) == metric
RootOfPower ==
    /\ ops < MaxOps
    /\ \E metric \in Atoms, n \in Roots : Recovered("root_of_power", metric, n, PowerOfRootOfPower[n])
\* (metric ** (1.0 / n)) ** n == metric
PowerOfRoot ==
    /\ ops < MaxOps
    /\ \E metric \in Atoms, n \in Roots : Recovered("power_of_root", metric, n, PowerOfPowerOfRoot[n])
\* subject ** a * subject ** b == subject ** (a + b), for powers that are halves
AddPowers ==
    /\ ops < MaxOps
    /\ \E subject \in Operands, a \in Powers, b \in Powers :
           /\ \A power \in {a, b, a + b} : ExactPowers(<<MInput(None, subject, power)>>)
           /\ \E first \in Derived(Registry, <<MInput(None, subject, a)>>) :
               \E second \in (IF first.ok THEN Derived(first.R, <<MInput(None, subject, b)>>) ELSE {first}) :
                   \E left \in (IF second.ok THEN Product(second.R, first.result, second.result) ELSE {second}) :
                       \E right \in (IF left.ok THEN Derived(left.R, <<MInput(None, subject, a + b)>>)
                                      ELSE {left}) :
                           Compared("add_powers", subject, left, right)

\* Metric(terms = [Term(prefix, numerator / denominator, power)]), as
\* prefix * (numerator / denominator) and its powers are built
PrefixTimesQuotient ==
    /\ ops < MaxOps
    /\ \E prefix \in DOMAIN defined_prefixes_by_value, numerator \in handed_metrics, denominator \in handed_metrics,
          power \in IntegerPowers \ {0} :
        \E quotient \in Quotient(Registry, numerator, denominator) :
            \E prefixed \in (IF quotient.ok THEN Derived(quotient.R, <<MInput(prefix, quotient.result, power)>>)
                             ELSE {quotient}) :
                /\ Commit(prefixed.R)
                /\ last' = [NoLast EXCEPT !.op = "Metric.canonicalize",
                                          !.outcome = IF prefixed.ok THEN "ok" ELSE "TypeError",
                                          !.prefix = prefix, !.left = quotient.result, !.power = power,
                                          !.metric = prefixed.result]
    /\ ops' = ops + 1
    /\ UNCHANGED <<handed_metrics, handed_dimensions, instance>>

\* a program that defines Prefixes and computes with them
PrefixNext ==
    DefinePrefix \/ PrefixPlus \/ PrefixMinus \/ PrefixTimesMetric \/ RedefinePrefix \/ PrefixTimesQuotient
PrefixSpec == Init /\ [][PrefixNext]_vars

\* a program that defines and derives units and computes with them
AlgebraNext ==
    \/ Next
    \/ ReducePrefixedPower
    \/ Commutative \/ Associative \/ IdentityInMultiplication \/ Inverse
    \/ RootOfPower \/ PowerOfRoot \/ AddPowers
AlgebraSpec == Init /\ [][AlgebraNext]_vars

\* ---------------------------------------------------------------- assignment to Immutable instances
\* hasattr(self, name)
HasAttr(self, name) == self.attributes[name] # Unset
RaiseImmutable(self) == [outcome |-> "AttributeError", text |-> <<ClassName(self.class), " is immutable.">>, self |-> self]
\* object.__setattr__
ObjectSetattr(self, name, value) ==
    IF name \in Slots(self.class) \/ HasDict(self.class)
    THEN [outcome |-> "ok", text |-> <<>>, self |-> [self EXCEPT !.attributes[name] = value]]
    ELSE [outcome |-> "AttributeError", text |-> <<>>, self |-> self]
\* object.__delattr__
ObjectDelattr(self, name) ==
    IF HasAttr(self, name)
    THEN [outcome |-> "ok", text |-> <<>>, self |-> [self EXCEPT !.attributes[name] = Unset]]
    ELSE [outcome |-> "AttributeError", text |-> <<>>, self |-> self]
\* Immutable.__setattr__, if it did not look for the frozen flag
ImmutableSetattrUnfrozen(self, name, value) == ObjectSetattr(self, name, value)
\* Immutable.__setattr__
ImmutableSetattr(self, name, value) ==
    IF HasAttr(self, "frozen") THEN RaiseImmutable(self) ELSE ObjectSetattr(self, name, value)
\* Immutable.__delattr__
ImmutableDelattr(self, name) ==
    IF HasAttr(self, "frozen") THEN RaiseImmutable(self) ELSE ObjectDelattr(self, name)
\* Immutable._internal__setattr__
InternalSetattr(self, name, value) == ObjectSetattr(self, name, value)

MaxAssignments == 2

\* the program takes an instance: a new one inside __init__, or a constructed one
Instantiate ==
    /\ instance = NoInstance
    /\ \E class \in ImmutableClasses :
        \E object \in {Blank(class), Constructed(class)} :
            /\ instance' = object
            /\ last' = [NoLast EXCEPT !.op = "__new__"]
    /\ UNCHANGED <<registry_vars, handed_metrics, handed_dimensions, ops>>

Assigned(op, name, value, out) ==
    /\ instance' = out.self
    /\ last' = [NoLast EXCEPT !.op = op, !.attribute = name, !.value = value, !.outcome = out.outcome,
                              !.text = out.text]
    /\ ops' = ops + 1
    /\ UNCHANGED <<registry_vars, handed_metrics, handed_dimensions>>

\* instance.name = value
SetAttribute ==
    /\ ops < MaxAssignments
    /\ instance # NoInstance
    /\ \E name \in AttributeNames(instance.class), value \in Values :
        Assigned("__setattr__", name, value, ImmutableSetattr(instance, name, value))

\* del instance.name
DeleteAttribute ==
    /\ ops < MaxAssignments
    /\ instance # NoInstance
    /\ \E name \in AttributeNames(instance.class) :
        Assigned("__delattr__", name, Unset, ImmutableDelattr(instance, name))

\* instance._internal__setattr__(name, value)
InternalSetAttribute ==
    /\ ops < MaxAssignments
    /\ instance # NoInstance
    /\ \E name \in AttributeNames(instance.class), value \in Values :
        Assigned("_internal__setattr__", name, value, InternalSetattr(instance, name, value))

\* a program that assigns to the attributes of an instance
ImmutableNext == Instantiate \/ SetAttribute \/ DeleteAttribute \/ InternalSetAttribute
ImmutableSpec == Init /\ [][ImmutableNext]_vars

\* ---------------------------------------------------------------- flyweight identity
MetricDerivations == {"Metric.__mul__", "Metric.__truediv__", "Metric.__pow__", "Prefix.__mul__"}
DimensionDerivations == {"Dimension.__mul__", "Dimension.__truediv__", "Dimension.__pow__"}
DerivedMetric == last.op \in MetricDerivations /\ last.outcome = "ok"
DerivedDimension == last.op \in DimensionDerivations /\ last.outcome = "ok"
NamedMetric == last.op \in {"Metric", "Metric(derivation)"} /\ last.outcome = "ok"
NamedDimension == last.op \in {"Dimension", "Dimension(derivation)"} /\ last.outcome = "ok"

\* C1 (as amended): a derivation (terms = [...], *, /, **) whose canonical
\* terms are a key of the term-set table returns the instance the table holds
\* for them, which is the instance registered last under these terms, with
\* that instance's name, symbol and Dimension.
C1_DerivationReturnsTableEntry ==
    /\ (DerivedMetric /\ last.terms \in DOMAIN defined_metrics_by_terms)
            => last.metric = defined_metrics_by_terms[last.terms]
    /\ (DerivedDimension /\ last.terms \in DOMAIN defined_dimensions_by_terms)
            => last.dimension = defined_dimensions_by_terms[last.terms]
\* a derivation has returned a Metric the program itself registered with a name
C1_Witness ==
    /\ DerivedMetric
    /\ last.metric.name \in {n.name : n \in MetricNames}
    /\ last.metric = defined_metrics_by_terms[last.terms]
\* C1 as stated: a derivation returns every Metric (Dimension) registered
\* with a name whose canonical terms are the terms derived.
C1_Original ==
    /\ \A m \in Range(defined_metrics_by_symbol) : (DerivedMetric /\ last.terms = m.terms) => last.metric = m
    /\ \A d \in Range(defined_dimensions_by_symbol) : (DerivedDimension /\ last.terms = d.terms) => last.dimension = d

\* C2 (as amended): a derivation registers nothing: it leaves the term-set
\* and symbol tables as they are, and when its canonical terms are no key of
\* the term-set table it returns a newly created instance.
C2_DerivationRegistersNothing ==
    [][(last'.op \in MetricDerivations \cup DimensionDerivations /\ last'.outcome = "ok")
         => /\ defined_metrics_by_terms' = defined_metrics_by_terms
            /\ defined_metrics_by_symbol' = defined_metrics_by_symbol
            /\ defined_dimensions_by_terms' = defined_dimensions_by_terms
            /\ defined_dimensions_by_symbol' = defined_dimensions_by_symbol
            /\ (last'.op \in MetricDerivations /\ last'.terms \notin DOMAIN defined_metrics_by_terms)
                    => last'.metric.id = next_id' - 1 /\ last'.metric.id >= next_id
            /\ (last'.op \in DimensionDerivations /\ last'.terms \notin DOMAIN defined_dimensions_by_terms)
                    => last'.dimension.id = next_id' - 1 /\ last'.dimension.id >= next_id]_vars
\* the same unnamed unit was derived twice: two instances with equal terms
C2_Witness ==
    /\ DerivedMetric
    /\ last.terms \notin DOMAIN defined_metrics_by_terms
    /\ \E m \in handed_metrics : m.terms = last.terms /\ m.id # last.metric.id /\ m.name = last.metric.name
\* C2 as stated: two instances handed out with equal canonical terms are the
\* same object.
C2_Original ==
    /\ \A a, b \in handed_metrics : a.terms = b.terms => a = b
    /\ \A a, b \in handed_dimensions : a.terms = b.terms => a = b

ConversionCalls == {"Quantity.to", "Metric.to", "Metric.is_convertible_to", "Metric.find_conversion"}
\* what a call reports when there is no conversion
NoConversionOutcome(op) ==
    IF op = "Metric.find_conversion" THEN "None"
    ELSE IF op = "Metric.is_convertible_to" THEN "False"
    ELSE "MetricConversionError"
\* a defined Metric of one term: no Prefix, power one
Atomic(metric) == \E t \in metric.terms : metric.terms = {t} /\ t.prefix = OnePrefix /\ t.power = Whole(1)
MetricNamesOf(metric) == {t.metric : t \in metric.terms}
\* the key of Metric.conversions for numerator / denominator
RatioKey(numerator, denominator) ==
    {MTerm(OnePrefix, numerator, Whole(1)), MTerm(OnePrefix, denominator, Whole(0 - 1))}
\* a Conversion is registered between the Metrics named a and b
Related(a, b) == RatioKey(a, b) \in DOMAIN conversions \/ RatioKey(b, a) \in DOMAIN conversions
\* the one term of a Metric that is a Prefix times a defined Metric
OnlyTerm(metric) == CHOOSE t \in metric.terms : TRUE
Prefixed(metric) == \E t \in metric.terms : metric.terms = {t} /\ t.power = Whole(1)
scale(prefix) == RatPow(prefix[1], prefix[2])

\* C4: for two distinct Metrics of the same Dimension between which no
\* strategy finds a path (here: no registered Conversion mentions either),
\* find_conversion returns None, is_convertible_to returns False, and
\* Metric.to and Quantity.to raise the ConversionError; nothing else happens.
C4_NoPathIsReported ==
    (/\ last.op \in ConversionCalls
     /\ Atomic(last.from) /\ Atomic(last.to)
     /\ last.from.terms # last.to.terms
     /\ last.from.dimension.terms = last.to.dimension.terms
     /\ \A key \in DOMAIN conversions :
            (MetricNamesOf(last.from) \cup MetricNamesOf(last.to)) \cap {t.metric : t \in key} = {})
        => last.outcome = NoConversionOutcome(last.op)

\* C5: whenever q.to(M) resolves a conversion and returns, the Quantity
\* returned is measured in M, whichever strategy served it and whether or not
\* M carries Prefixes.
C5_ResultIsInDesiredMetric ==
    (last.op = "Quantity.to" /\ last.outcome = "ok") => last.result.metric.terms = last.to.terms

\* C6: with a ScalarConversion of factor f registered for A / B, x of Q*B
\* converts to x * f * scale(Q) / scale(P) of P*A, and x of P*A converts to
\* x * scale(P) / (f * scale(Q)) of Q*B, for all Prefixes P and Q, present or
\* absent.
C6_ScalarConversionAcrossPrefixes ==
    (last.op = "Quantity.to" /\ Prefixed(last.from) /\ Prefixed(last.to))
        => LET from_term == OnlyTerm(last.from)
               to_term == OnlyTerm(last.to)
               x == last.quantity.magnitude
               served(A, B, P, Q, magnitude) ==
                   (RatioKey(A, B) \in DOMAIN conversions /\ conversions[RatioKey(A, B)].kind = "scalar")
                       => /\ last.outcome = "ok"
                          /\ last.result.magnitude = magnitude
           IN  /\ served(to_term.metric, from_term.metric, to_term.prefix, from_term.prefix,
                         RatDiv(RatMul(RatMul(x, conversions[RatioKey(to_term.metric, from_term.metric)]
                                                      .scalar_factor.magnitude),
                                       scale(from_term.prefix)), scale(to_term.prefix)))
               /\ served(from_term.metric, to_term.metric, from_term.prefix, to_term.prefix,
                         RatDiv(RatMul(x, scale(from_term.prefix)),
                                RatMul(conversions[RatioKey(from_term.metric, to_term.metric)].scalar_factor.magnitude,
                                       scale(to_term.prefix))))

\* C7: when a scalar or function Conversion is registered between A and B,
\* in either direction, every x of A converts to B and the result converts
\* back to x of A.
C7_RoundTrip ==
    (/\ last.op = "Quantity.to"
     /\ Atomic(last.from) /\ Atomic(last.to)
     /\ Related(OnlyTerm(last.from).metric, OnlyTerm(last.to).metric))
        => /\ last.outcome = "ok"
           /\ (Len(last.chain) = 1 + 1 /\ last.origin.metric.terms = last.to.terms)
                => /\ last.result.magnitude = last.origin.magnitude
                   /\ last.result.metric.terms = last.origin.metric.terms
\* a magnitude other than one went to the other Metric of a registered
\* Conversion and came back through the inverse lookup
C7_Witness ==
    /\ last.op = "Quantity.to" /\ last.outcome = "ok"
    /\ Atomic(last.from) /\ Atomic(last.to)
    /\ Related(OnlyTerm(last.from).metric, OnlyTerm(last.to).metric)
    /\ Len(last.chain) = 1 + 1
    /\ last.origin.metric.terms = last.to.terms
    /\ last.quantity.magnitude # last.origin.magnitude
    /\ last.origin.magnitude # <<1, 1>>
    /\ last.result = last.origin

\* C8: between Metrics whose Dimensions differ, Metric.to and Quantity.to
\* raise the ConversionError, is_convertible_to returns False and
\* find_conversion, called directly, returns None.
C8_DifferentDimensions ==
    (last.op \in ConversionCalls /\ last.from.dimension.terms # last.to.dimension.terms)
        => last.outcome = NoConversionOutcome(last.op)

\* ---------------------------------------------------------------- parsing
\* C9: for every Metric and Dimension reached by registration or by
\* derivation with *, / and **, parsing the unit's formatted typographical
\* symbol returns a unit equal to the original.
C9_RoundTrip ==
    /\ last.op = "Metric.parse"
        => last.outcome = "ok" /\ MetricEq(Registry, last.metric, last.from)
    /\ last.op = "Dimension.parse"
        => last.outcome = "ok" /\ last.dimension.terms = last.from.terms

\* C10: every registration of a Dimension, Metric or Prefix clears the cached
\* tokenizing pattern: a pattern that is held is the pattern a rebuild from
\* the registered symbols and prefix symbols would give.
C10_PatternIsCurrent ==
    /\ parsing_pattern.built
        => parsing_pattern = MetricRebuildParsingPattern(Registry).parsing_pattern
    /\ dimension_parsing_pattern.built
        => dimension_parsing_pattern = DimensionRebuildParsingPattern(Registry).dimension_parsing_pattern

\* the characters of the registered symbols and of the notation
RECURSIVE CharactersOf(_)
CharactersOf(symbols) ==
    IF symbols = {} THEN {}
    ELSE LET symbol == CHOOSE t \in symbols : TRUE
         IN  {symbol[i] : i \in DOMAIN symbol} \cup CharactersOf(symbols \ {symbol})
MetricNotation ==
    CharactersOf(DOMAIN defined_metrics_by_symbol \cup DOMAIN defined_prefixes_by_symbol)
        \cup PowerCharacters \cup {"^", "/"}
DimensionNotation ==
    CharactersOf(DOMAIN defined_dimensions_by_symbol) \cup PowerCharacters \cup {"^", "/"}
\* a text the grammar does not derive: a character of no token, a power that
\* is no number, more than one solidus
Underivable(text, notation) ==
    \/ \E i \in DOMAIN text : text[i] \notin notation
    \/ \E i \in DOMAIN text : text[i] = "^" /\ (i = Len(text) \/ text[i + 1] \notin PowerCharacters)
    \/ Cardinality({i \in DOMAIN text : text[i] = "/"}) > 1
\* C11: Metric.parse and Dimension.parse raise the parsing exception for
\* every text the notation grammar does not derive, and never return a unit
\* built from the recognizable part of the text.
C11_UnderivableTextIsRejected ==
    /\ (last.op = "Metric.parse(text)" /\ Underivable(last.text, MetricNotation))
        => last.outcome = "MeasurementParsingException"
    /\ (last.op = "Dimension.parse(text)" /\ Underivable(last.text, DimensionNotation))
        => last.outcome = "MeasurementParsingException"

\* ---------------------------------------------------------------- canonical terms
\* canonicalize, called again on the terms it returned
MetricRecanonicalized(terms) == MetricNormalizedTerms(Registry, MTermsAsInput(Registry, terms))
DimensionRecanonicalized(terms) == DimCanonicalize(DTermsAsInput(OrderOf(dimension_order, terms)))
C13_ReduceExpandsPrefixes ==
    last.op = "Metric.reduce"
        => /\ last.outcome = "ok"
           /\ last.result.scale.two
                = last.origin.scale.two + (IF last.prefix[1] = 1 + 1 THEN last.prefix[2] * last.power ELSE 0)
           /\ last.result.scale.ten
                = last.origin.scale.ten + (IF last.prefix[1] = 10 THEN last.prefix[2] * last.power ELSE 0)
           /\ \A t \in last.result.metric.terms : t.prefix = OnePrefix /\ (t.metric = TenName => t.power = 0)

\* the laws of multiplication a program tests
MultiplicationLaws == {"commutative", "associative", "identity_in_multiplication", "inverse"}
\* C14: multiplication of Metrics is commutative and associative, One is its
\* identity (One*M == M*One == M/One == M) and M*(One/M) == One == M/M, for
\* every Metric M, derived Metrics and Metrics with Prefixes of any base
\* included.
C14_MultiplicationLaws ==
    last.op \in MultiplicationLaws => last.outcome = "True"

\* the laws of powers a program tests
PowerLaws == {"root_of_power", "power_of_root", "add_powers"}
\* C15: fractional powers of Metrics are carried exactly: for a Metric M and
\* an integer n >= 2, (M ** (1/n)) ** n == M and (M ** n) ** (1/n) == M, and
\* M**a * M**b == M**(a+b) for fractional a and b.
C15_FractionalPowersAreExact ==
    last.op \in PowerLaws => last.outcome = "True"

\* ---------------------------------------------------------------- Prefix arithmetic
PrefixArithmetic == {"Prefix.__add__", "Prefix.__sub__"}
\* one step of P + Q or P - Q does what C16 says
SumOrDifferenceOfPrefixes ==
    LET p == last'.operands[1]
        q == last'.operands[2]
        power == IF last'.op = "Prefix.__add__" THEN p[2] + q[2] ELSE p[2] - q[2]
        value == <<p[1], power>>
        collected == PrefixObj(CollectedSymbol(value), CollectedSymbol(value), value)
    IN  IF p[1] # q[1]
        THEN /\ last'.outcome = "TypeError" /\ last'.prefix = NotImplemented
             /\ UNCHANGED <<defined_prefixes_by_value, defined_prefixes_by_symbol>>
        ELSE IF power = 0
        THEN /\ last'.outcome = "ok" /\ last'.prefix = None
             /\ UNCHANGED <<defined_prefixes_by_value, defined_prefixes_by_symbol>>
        ELSE IF value \in DOMAIN defined_prefixes_by_value
        THEN /\ last'.outcome = "ok" /\ last'.prefix = value
             /\ UNCHANGED <<defined_prefixes_by_value, defined_prefixes_by_symbol>>
        ELSE /\ last'.outcome = "ok" /\ last'.prefix = value
             /\ defined_prefixes_by_value' = (value :> collected) @@ defined_prefixes_by_value
             /\ defined_prefixes_by_symbol' = (CollectedSymbol(value) :> collected) @@ defined_prefixes_by_symbol
\* C16: for two Prefixes P and Q of equal bases, P+Q (P-Q) is the Prefix
\* registered at (base, P.power+Q.power) (resp. P.power-Q.power), created and
\* registered under the name and symbol 'base^power' if none exists, or the
\* null result when that power is 0; when the bases differ, + and - are
\* rejected and produce no Prefix.
C16_PrefixSumsAndDifferences ==
    [][ops' = ops + 1 /\ last'.op \in PrefixArithmetic => SumOrDifferenceOfPrefixes]_vars

\* one step of Metric.Prefix.define or Metric.Prefix(...) at a registered
\* (base, power) does what C17 says
RegisteredPrefixIsKept ==
    /\ last'.op = "Prefix.define"
        => /\ last'.outcome = "KeyError"
           /\ UNCHANGED <<defined_prefixes_by_value, defined_prefixes_by_symbol>>
    /\ last'.op = "Prefix" /\ last'.prefix \in DOMAIN defined_prefixes_by_value
        => /\ defined_prefixes_by_value'[last'.prefix] = defined_prefixes_by_value[last'.prefix]
           /\ UNCHANGED <<defined_prefixes_by_value, defined_prefixes_by_symbol>>
\* C17: Prefix.define of a Prefix whose (base, power) is already registered
\* raises a duplicate-definition error and leaves both prefix tables
\* unchanged; constructing a Prefix with a registered (base, power) returns
\* the existing Prefix with its original name and symbol.
C17_RegisteredPrefixIsKept ==
    [][ops' = ops + 1 => RegisteredPrefixIsKept]_vars
\* kilo was defined again, and is still registered as kilo
C17_Witness ==
    /\ last.op = "Prefix.define" /\ last.outcome = "KeyError" /\ last.prefix = KiloPrefix
    /\ defined_prefixes_by_value[KiloPrefix].name = <<"kilo">>
    /\ defined_prefixes_by_symbol[<<"k">>] = defined_prefixes_by_value[KiloPrefix]

\* ---------------------------------------------------------------- calling a Conversion
CalledFunction == last.op = "Conversion.__call__" /\ last.conversion.kind = "function"
CalledScalar == last.op = "Conversion.__call__" /\ last.conversion.kind = "scalar"
\* the called FunctionConversion applied its forward function to a Quantity
\* in from_metric, its inverse to one in to_metric, and raised otherwise
FunctionDispatched ==
    LET conversion == last.conversion
        quantity == last.quantity
    IN  IF MetricEq(Registry, quantity.metric, conversion.from_metric)
        THEN /\ last.outcome = "ok"
             /\ last.result = Quantity(RatAdd(quantity.magnitude, conversion.offset), conversion.to_metric)
        ELSE IF MetricEq(Registry, quantity.metric, conversion.to_metric)
        THEN /\ last.outcome = "ok"
             /\ RatAdd(last.result.magnitude, conversion.offset) = quantity.magnitude
             /\ last.result.metric = conversion.from_metric
        ELSE last.outcome = "MetricConversionError"
\* the Quantity given to the called ScalarConversion is in the Metric of one
\* side of its factor
MatchesASide ==
    LET factor == last.conversion.scalar_factor.metric
    IN  \/ MetricEq(Registry, last.quantity.metric, Numerator(Registry, factor))
        \/ MetricEq(Registry, last.quantity.metric, Denominator(Registry, factor))
\* the reduced Metric of the Quantity given to the called ScalarConversion
\* has the numerator or the denominator of the reduced Metric of its factor
\* as its own numerator or denominator
SharesAPart ==
    LET shares(quantity, factor) ==
            \E mine \in {Numerator(Registry, quantity), Denominator(Registry, quantity)} :
                \E its \in {Numerator(Registry, factor), Denominator(Registry, factor)} :
                    MetricEq(Registry, mine, its)
    IN  shares(MetricReduce(Registry, last.quantity.metric).metric,
               MetricReduce(Registry, last.conversion.scalar_factor.metric).metric)
\* C18 as stated: a FunctionConversion registered for (from_metric,
\* to_metric) applies its forward function to a Quantity whose Metric is
\* from_metric, its inverse function to a Quantity whose Metric is to_metric,
\* and raises ConversionError for a Quantity in any other Metric; a
\* ScalarConversion likewise raises ConversionError for a Quantity whose
\* Metric matches neither side of its factor.
C18_Original ==
    /\ CalledFunction => FunctionDispatched
    /\ CalledScalar /\ ~MatchesASide => last.outcome = "MetricConversionError"
\* C18, amended: the FunctionConversion dispatches as stated; a
\* ScalarConversion raises ConversionError exactly for a Quantity whose
\* reduced Metric shares neither its numerator nor its denominator with the
\* reduced Metric of the factor, so Quantities in derived Metrics such as
\* Meter/Second are converted by the ScalarConversion between Meter and Inch.
C18_ConversionDispatch ==
    /\ CalledFunction => FunctionDispatched
    /\ CalledScalar => (last.outcome = "MetricConversionError" <=> ~SharesAPart)
\* the ScalarConversion between Meter and Inch was called with a Quantity in
\* Meter/Second and converted it
C18_Witness ==
    /\ CalledScalar /\ last.outcome = "ok"
    /\ last.conversion.scalar_factor.metric.terms
         = {MTerm(OnePrefix, <<"meter">>, Whole(1)), MTerm(OnePrefix, <<"inch">>, Whole(0 - 1))}
    /\ last.quantity.metric.terms
         = {MTerm(OnePrefix, <<"meter">>, Whole(1)), MTerm(OnePrefix, <<"second">>, Whole(0 - 1))}
    /\ ~MatchesASide

\* ---------------------------------------------------------------- equality of Quantities
\* the two Quantities denote the same amount in Metrics that differ in
\* their Prefixes only
SameAmount(self, other) == QuantityReduce(Registry, self) = QuantityReduce(Registry, other)
\* C19: equality of two Quantities whose Metrics differ but are convertible
\* compares them after converting the right operand into the left operand's
\* Metric, so that it is symmetric (a == b exactly when b == a) and two
\* Quantities denoting the same amount compare equal whatever Prefixes their
\* Metrics carry (3000 Meter == 3 Kilo*Meter); Quantities of non-convertible
\* Metrics compare unequal.
C19_QuantityEquality ==
    last.op = "Quantity.__eq__"
        => /\ last.outcome \in {"True", "False"}
           /\ last.converse = last.outcome
           /\ SameAmount(last.quantity, last.origin) => last.outcome = "True"
           /\ last.quantity.metric.dimension.terms # last.origin.metric.dimension.terms => last.outcome = "False"

\* ---------------------------------------------------------------- frozen instances
\* the instance has its frozen flag set
Frozen(self) == self.attributes["frozen"] # Unset
\* the attribute is one the instance can hold (assignment), or holds (deletion)
AssignableAttribute == last'.attribute \in Slots(instance.class) \/ HasDict(instance.class)
HeldAttribute == instance.attributes[last'.attribute] # Unset
\* C20: once an instance of an Immutable class has its frozen flag set, every
\* attribute assignment and deletion raises AttributeError and leaves the
\* attribute's value unchanged; before the flag is set, assignments and
\* deletions succeed.
C20_FrozenInstancesRejectAssignment ==
    [][ops' = ops + 1 /\ last'.op \in {"__setattr__", "__delattr__"}
          => IF Frozen(instance)
             THEN /\ last'.outcome = "AttributeError"
                  /\ last'.text = <<ClassName(instance.class), " is immutable.">>
                  /\ instance' = instance
             ELSE /\ last'.op = "__setattr__" /\ AssignableAttribute
                      => last'.outcome = "ok" /\ instance'.attributes[last'.attribute] = last'.value
                  /\ last'.op = "__delattr__" /\ HeldAttribute
                      => last'.outcome = "ok" /\ instance'.attributes[last'.attribute] = Unset]_vars
\* a constructed Metric keeps its name when the program assigns another
C20_Witness ==
    /\ last.op = "__setattr__"
    /\ last.outcome = "AttributeError"
    /\ instance.class = "Metric"
    /\ last.attribute = "name"
    /\ last.value = "y"
    /\ instance.attributes["name"] = "x"
    /\ Frozen(instance)

\* ---------------------------------------------------------------- termination of the resolver
\* C21: every call of find_conversion terminates: the factor-label strategy
\* resolves the conversion of each term to the base Metric of its Dimension
\* without entering find_conversion for the same pair again, so that no
\* resolution ends in unbounded recursion (in particular not for two Metrics
\* of one Dimension that have no registered Conversion).
C21_ResolutionTerminates ==
    last.op \in ConversionCalls => last.outcome # "RecursionError"

\* ---------------------------------------------------------------- integer-root factoring
\* a defined Metric raised to an integer power of two or more, without Prefix
PowerOfAtom(metric) ==
    \E t \in metric.terms : metric.terms = {t} /\ t.prefix = OnePrefix /\ IsWhole(t.power) /\ t.power >= Whole(2)
\* the scalar Conversion registered for numerator / denominator
ScalarRegistered(numerator, denominator) ==
    /\ RatioKey(numerator, denominator) \in DOMAIN conversions
    /\ conversions[RatioKey(numerator, denominator)].kind = "scalar"
\* C22: if a scalar Conversion between A and B is registered in either
\* direction with factor f, the conversion between A**n and B**n, n >= 2, is
\* resolved by integer-root factoring and scales magnitudes by f**n, in both
\* directions, whatever the order in which the terms of the ratio are
\* enumerated.
C22_RootFactoring ==
    (/\ last.op = "Quantity.to"
     /\ PowerOfAtom(last.from) /\ PowerOfAtom(last.to)
     /\ OnlyTerm(last.from).power = OnlyTerm(last.to).power
     /\ OnlyTerm(last.from).metric # OnlyTerm(last.to).metric)
        => LET A == OnlyTerm(last.from).metric
               B == OnlyTerm(last.to).metric
               n == OnlyTerm(last.from).power \div PowerUnit
               x == last.quantity.magnitude
               f(numerator, denominator) == conversions[RatioKey(numerator, denominator)].scalar_factor.magnitude
               scaled(magnitude) ==
                   /\ last.outcome = "ok"
                   /\ last.strategy = "root"
                   /\ last.result.magnitude = magnitude
           IN  /\ ScalarRegistered(B, A) => scaled(RatMul(x, RatPowRat(f(B, A), n)))
               /\ ScalarRegistered(A, B) => scaled(RatDiv(x, RatPowRat(f(A, B), n)))

\* ---------------------------------------------------------------- factor-label chaining
\* 1 of the defined Metric named, in the base Metric of its Dimension
InBaseMetric(name) ==
    LET base == base_metric_of[defined_metrics_by_terms[{MTerm(OnePrefix, name, Whole(1))}].dimension.terms].name
    IN  IF name = base THEN <<1, 1>>
        ELSE IF ScalarRegistered(base, name) THEN conversions[RatioKey(base, name)].scalar_factor.magnitude
        ELSE RatInv(conversions[RatioKey(name, base)].scalar_factor.magnitude)
\* 1 of the Metric in base Metrics: every term (prefix, M, p) contributes
\* (scale(prefix) * 1 M in its base Metric) ** p
RECURSIVE InBaseMetrics(_)
InBaseMetrics(terms) ==
    IF terms = {} THEN <<1, 1>>
    ELSE LET t == CHOOSE u \in terms : TRUE
         IN  RatMul(RatPowRat(RatMul(scale(t.prefix), InBaseMetric(t.metric)), t.power \div PowerUnit),
                    InBaseMetrics(terms \ {t}))
\* C23: in factor-label chaining every term (M, p) of the ratio contributes
\* the conversion of 1 M to the base Metric of its Dimension raised to the
\* power |p|, multiplied in when p > 0 and divided out when p < 0, the
\* conversion maps q to that scalar times q.magnitude, and the Prefix scale
\* factors of the source and target Metrics are accounted for.
C23_FactorLabelChaining ==
    (last.op = "Quantity.to" /\ last.strategy = "factor-label" /\ last.outcome = "ok")
        => RatMul(last.result.magnitude, InBaseMetrics(last.result.metric.terms))
               = RatMul(last.quantity.magnitude, InBaseMetrics(last.from.terms))

\* ---------------------------------------------------------------- the outer prefix
\* the terms canonicalize collects for the outer term (prefix, M, power) when
\* the outer prefix is combined into the term of M chosen and every other term
\* of M keeps its own prefix; the terms of M have the powers 1 and -1
OuterPrefixOn(chosen, prefix, M, power) ==
    LET combined == PrefixAdd(prefix, chosen.prefix)
        emitted == {MTerm(IF combined = None THEN OnePrefix ELSE combined, chosen.metric, MulPow(chosen.power, power))}
                       \cup {MTerm(t.prefix, t.metric, MulPow(t.power, power)) : t \in M.terms \ {chosen}}
        keys == {<<t.prefix, t.metric>> : t \in emitted}
        sum(key) == LET of_key == {t \in emitted : <<t.prefix, t.metric>> = key}
                        one == CHOOSE t \in of_key : TRUE
                    IN  IF Cardinality(of_key) = 1 THEN one.power
                        ELSE one.power + (CHOOSE t \in of_key \ {one} : TRUE).power
        normalized_terms == {MTerm(key[1], key[2], sum(key)) : key \in {k \in keys : sum(k) # 0}}
    IN  IF normalized_terms = {} THEN {MTerm(OnePrefix, TenName, 0)} ELSE normalized_terms
\* the outer term is a Prefix other than one on a quotient of two Metrics that
\* has a numerator
PrefixedQuotient ==
    /\ last.op = "Metric.canonicalize" /\ last.outcome = "ok"
    /\ last.prefix # OnePrefix
    /\ \A t \in last.left.terms : Abs(t.power) = Whole(1)
    /\ \E t \in last.left.terms : t.power > 0
\* C24: when Metric.canonicalize flattens an outer term (prefix, M, p), the
\* outer prefix is combined into exactly one emitted term, which is a term of
\* the numerator of M (a term of positive power); every other emitted term
\* keeps only its inner prefix.
C24_OuterPrefixGoesToTheNumerator ==
    PrefixedQuotient
        => \E chosen \in last.left.terms :
               /\ chosen.power > 0
               /\ last.metric.terms = OuterPrefixOn(chosen, last.prefix, last.left, last.power)

\* ------------------------------------------------- canonical Metric term sets
\* every Metric the program holds: those handed out and those registered
HeldMetrics ==
    handed_metrics \cup Range(defined_metrics_by_terms) \cup Range(defined_metrics_by_symbol)
\* the Metric a term names is atomic: its one-term set is a key of the table
RefersToAtom(term) ==
    {MTerm(OnePrefix, term.metric, Whole(1))} \in DOMAIN defined_metrics_by_terms
\* the term canonicalize injects when every power has cancelled
PlaceholderTerm == MTerm(OnePrefix, TenName, 0)
\* what holds of every canonical Metric term set, whatever two terms may share
WellFormedTerms(terms) ==
    /\ terms # {}
    /\ \A t \in terms : RefersToAtom(t)
    /\ \A t \in terms : t.power = 0 => terms = {PlaceholderTerm}

\* C25 (as amended): every Metric's term set is non-empty, refers only to
\* atomic Metrics, contains no two terms with the same Prefix and the same
\* base Metric, and contains a zero-power term only as the single placeholder
\* term (identity prefix, ten, power 0).
C25_MetricTermSets ==
    \A metric \in HeldMetrics :
        /\ WellFormedTerms(metric.terms)
        /\ \A s, t \in metric.terms : (s.prefix = t.prefix /\ s.metric = t.metric) => s = t
\* a derivation has returned a Metric with two terms of one base Metric under
\* different Prefixes, and a trivial Metric is held as well
C25_Witness ==
    /\ last.outcome = "ok"
    /\ last.metric \in handed_metrics
    /\ \E s, t \in last.metric.terms : s.metric = t.metric /\ s.prefix # t.prefix
    /\ \E metric \in HeldMetrics : metric.terms = {PlaceholderTerm}
\* C25 as stated: no two terms of a Metric have the same base Metric.
C25_Original ==
    \A metric \in HeldMetrics :
        /\ WellFormedTerms(metric.terms)
        /\ \A s, t \in metric.terms : s.metric = t.metric => s = t

\* ------------------------------------------- a program that registers Metrics
\* the program holds Meter, Second and Meter / Second, and the Dimensions
\* Length and Time; no Metric is registered for the Dimension of Meter / Second
RegistrationUnits == <<<<<<None, <<"m">>, Whole(1)>>>>, <<<<None, <<"s">>, Whole(1)>>>>,
                       <<<<None, <<"m">>, Whole(1)>>, <<None, <<"s">>, Whole(0 - 1)>>>>>>
RegistrationInit ==
    LET holding(P) == InitWith(P.R, P.metrics, {DimBySymbol(P.R, symbol) : symbol \in {<<"L">>, <<"T">>}})
    IN  holding(Deriving([R |-> Catalog, metrics |-> {}], RegistrationUnits, 1))
RegistrationNext == DefineMetric \/ NameMetric \/ DefineDimension
RegistrationSpec == RegistrationInit /\ [][RegistrationNext]_vars

\* ------------------------------------------ a program that derives Dimensions
\* the program holds Number and Length of the catalog
DimensionInit ==
    LET holding(C) == InitWith(C, {}, {DimBySymbol(C, symbol) : symbol \in {<<"N">>, <<"L">>}})
    IN  holding(Catalog)
DimensionNext ==
    \/ DimensionMultiply \/ DimensionDivide \/ DimensionPower
    \/ DefineDimension \/ NameDimension
DimensionSpec == DimensionInit /\ [][DimensionNext]_vars

\* --------------------------------------------- canonical Dimension term sets
\* every Dimension the program holds: those handed out and those registered
HeldDimensions ==
    handed_dimensions \cup Range(defined_dimensions_by_terms) \cup Range(defined_dimensions_by_symbol)
\* the term set of an algebraically trivial Dimension
NumberTerms == {DTerm(NumberName, Whole(1))}

\* C26: a defined atomic Dimension has the terms {self^1}; a derived Dimension
\* has a non-empty term set without zero-power terms and without two terms of
\* one base Dimension, in which number occurs only as the single term
\* number^1.
C26_DimensionTermSets ==
    \A dimension \in HeldDimensions :
        IF dimension.defined THEN dimension.terms = {DTerm(dimension.name, Whole(1))}
        ELSE /\ dimension.terms # {}
             /\ \A t \in dimension.terms : t.power # 0
             /\ \A s, t \in dimension.terms : s.dimension = t.dimension => s = t
             /\ \A t \in dimension.terms : t.dimension = NumberName => dimension.terms = NumberTerms

\* ------------------------------------------------------------ base Metrics
\* the last operation registered a Metric with a name
RegisteredMetric(l) == l.op \in {"Metric", "Metric(derivation)"} /\ l.named /\ l.outcome = "ok"

\* C27: the first Metric registered for a Dimension becomes its base Metric,
\* and no later registration changes an entry of the base-Metric table.
C27_BaseMetricIsKept ==
    [][/\ \A d \in DOMAIN base_metric_of : d \in DOMAIN base_metric_of' /\ base_metric_of'[d] = base_metric_of[d]
       /\ (RegisteredMetric(last') /\ last'.metric.dimension.terms \notin DOMAIN base_metric_of)
            => /\ last'.metric.dimension.terms \in DOMAIN base_metric_of'
               /\ base_metric_of'[last'.metric.dimension.terms] = last'.metric]_vars
\* a Metric has been registered for a Dimension whose base Metric is an
\* earlier Metric the program registered itself
C27_Witness ==
    /\ RegisteredMetric(last)
    /\ base_metric_of[last.metric.dimension.terms] # last.metric
    /\ base_metric_of[last.metric.dimension.terms].id >= Catalog.next_id

\* ------------------------------------- a program that registers between parses
\* the program has parsed "m" and "L": both patterns are built, and it holds
\* the Metric and the Dimension the parses returned
CachedInit ==
    \E parsed \in MetricParse(Catalog, <<"m">>) :
        \E then \in DimensionParse(parsed.R, <<"L">>) :
            InitWith(then.R, {parsed.result}, {then.result})
CachedNext ==
    \/ DefineMetric \/ DefineDimension \/ DefinePrefix
    \/ ParseMetric \/ ParseDimension \/ ParseMetricText \/ ParseDimensionText
CachedSpec == CachedInit /\ [][CachedNext]_vars

\* ------------------------------------------------- the cached parsing patterns
\* the last operation was a parse that tokenizes its text: Metric.parse
\* answers "1" and "10" without a pattern
MetricTokenizing(l) ==
    l.op \in {"Metric.parse", "Metric.parse(text)"} /\ l.text \notin {<<"1">>, <<"1", "0">>}
DimensionTokenizing(l) == l.op \in {"Dimension.parse", "Dimension.parse(text)"}

\* C28: a pattern is never built by a registration, only by a parse; the
\* first parse that follows a mutation of the registries rebuilds it, and the
\* later parses reuse it: the pattern a parse leaves is the pattern built from
\* the registries the parse found.
C28_PatternIsRebuiltLazily ==
    [][/\ (parsing_pattern'.built /\ parsing_pattern' # parsing_pattern) => MetricTokenizing(last')
       /\ (dimension_parsing_pattern'.built /\ dimension_parsing_pattern' # dimension_parsing_pattern)
            => DimensionTokenizing(last')
       /\ MetricTokenizing(last') => parsing_pattern' = MetricRebuildParsingPattern(Registry).parsing_pattern
       /\ DimensionTokenizing(last')
            => dimension_parsing_pattern' = DimensionRebuildParsingPattern(Registry).dimension_parsing_pattern]_vars

\* ------------------------------------------------- derivations and registries
\* the operations that derive an unnamed Metric or Dimension: the operators,
\* the parsers, reduce, and the resolution of a conversion
DerivingOperations ==
    {"Metric.__mul__", "Metric.__truediv__", "Metric.__pow__", "Prefix.__mul__", "Metric.canonicalize",
     "Dimension.__mul__", "Dimension.__truediv__", "Dimension.__pow__",
     "Metric.parse", "Metric.parse(text)", "Dimension.parse", "Dimension.parse(text)",
     "Metric.reduce", "Quantity.to", "Metric.to", "Metric.is_convertible_to", "Metric.find_conversion"}
\* the tables of the registries
Tables ==
    <<defined_dimensions_by_terms, defined_dimensions_by_symbol, defined_metrics_by_terms,
      defined_metrics_by_symbol, base_metric_of, defined_prefixes_by_value, defined_prefixes_by_symbol,
      conversions>>

\* the tables but the two of the Prefixes
UnitTables ==
    <<defined_dimensions_by_terms, defined_dimensions_by_symbol, defined_metrics_by_terms,
      defined_metrics_by_symbol, base_metric_of, conversions>>
\* the Prefix Prefix.__add__ registers for a sum that is not registered yet
CollectedPrefix(v) ==
    [name |-> CollectedSymbol(v), typographical_symbol |-> CollectedSymbol(v), base |-> v[1], power |-> v[2]]

\* C29 (as amended): deriving an unnamed Metric or Dimension changes none of
\* the term-set tables, symbol tables, base-Metric table and conversion
\* table and does not invalidate a cached tokenizing pattern; the two Prefix
\* tables keep their entries and gain only the Prefixes Prefix.__add__
\* collects for the sums that were not registered.
C29_DerivationRegistersOnlyCollectedPrefixes ==
    [][last'.op \in DerivingOperations
        => /\ UNCHANGED UnitTables
           /\ parsing_pattern.built => parsing_pattern'.built
           /\ dimension_parsing_pattern.built => dimension_parsing_pattern'.built
           /\ \A v \in DOMAIN defined_prefixes_by_value :
                /\ v \in DOMAIN defined_prefixes_by_value'
                /\ defined_prefixes_by_value'[v] = defined_prefixes_by_value[v]
           /\ \A symbol \in DOMAIN defined_prefixes_by_symbol :
                /\ symbol \in DOMAIN defined_prefixes_by_symbol'
                /\ defined_prefixes_by_symbol'[symbol] = defined_prefixes_by_symbol[symbol]
           /\ \A v \in DOMAIN defined_prefixes_by_value' \ DOMAIN defined_prefixes_by_value :
                /\ defined_prefixes_by_value'[v] = CollectedPrefix(v)
                /\ defined_prefixes_by_symbol'[CollectedSymbol(v)] = CollectedPrefix(v)]_vars
\* a derivation has returned a Metric with a Prefix that Prefix.__add__
\* collected and registered
C29_Witness ==
    /\ last.op \in DerivingOperations
    /\ last.outcome = "ok"
    /\ \E t \in last.metric.terms :
        /\ t.prefix \notin DOMAIN Catalog.defined_prefixes_by_value
        /\ defined_prefixes_by_value[t.prefix] = CollectedPrefix(t.prefix)
\* C29 as stated: both Prefix tables are unchanged as well.
C29_Original ==
    [][last'.op \in DerivingOperations
        => /\ UNCHANGED Tables
           /\ parsing_pattern.built => parsing_pattern'.built
           /\ dimension_parsing_pattern.built => dimension_parsing_pattern'.built]_vars

\* ------------------------------------------------ a program that hashes Metrics
\* an integer in two's complement, and the exclusive or of two of them bit by
\* bit; the hashes of the model are small
Encoded(n) == n % 65536
RECURSIVE XorBits(_, _, _)
XorBits(a, b, bits) ==
    IF bits = 0 THEN 0
    ELSE (((a % 2) + (b % 2)) % 2) + 2 * XorBits(a \div 2, b \div 2, bits - 1)
Xor(a, b) == XorBits(a, b, 16)
\* hash(n) of a Python integer: n itself, but -2 for -1
IntHash(n) == Encoded(IF n = 0 - 1 THEN 0 - 2 ELSE n)
\* a hash: the exclusive or of the integer hashes, and the strings and the
\* fractional powers whose hashes it combines an odd number of times. The
\* hash of a string depends on the interpreter's seed; the hashes of
\* different strings are taken to be unrelated.
NoHash == [integers |-> 0, strings |-> {}]
HashXor(h, g) ==
    [integers |-> Xor(h.integers, g.integers),
     strings |-> (h.strings \ g.strings) \cup (g.strings \ h.strings)]
\* Metric.Prefix.__hash__
PrefixHash(prefix) == Xor(IntHash(prefix[1]), IntHash(prefix[2]))
\* hash(term.power): an integer power hashes as the integer
PowerHash(power) ==
    IF IsWhole(power) THEN [integers |-> IntHash(power \div PowerUnit), strings |-> {}]
    ELSE [integers |-> 0, strings |-> {<<"float", power>>}]
\* Metric.Term.__hash__
TermHash(term) ==
    HashXor([integers |-> PrefixHash(term.prefix), strings |-> {<<"str", term.metric>>}], PowerHash(term.power))
\* Metric.__hash__
RECURSIVE MetricHashOf(_)
MetricHashOf(terms) ==
    IF terms = {} THEN NoHash
    ELSE LET term == CHOOSE t \in terms : TRUE
         IN  HashXor(TermHash(term), MetricHashOf(terms \ {term}))
MetricHash(self) == MetricHashOf(self.terms)

\* the program holds kilo-meter, milli-second, their product, Meter * Second,
\* Meter and Second
HashedUnits ==
    <<<<<<KiloPrefix, <<"m">>, Whole(1)>>>>, <<<<MilliPrefix, <<"s">>, Whole(1)>>>>,
      <<<<KiloPrefix, <<"m">>, Whole(1)>>, <<MilliPrefix, <<"s">>, Whole(1)>>>>,
      <<<<None, <<"m">>, Whole(1)>>, <<None, <<"s">>, Whole(1)>>>>,
      <<<<None, <<"m">>, Whole(1)>>>>, <<<<None, <<"s">>, Whole(1)>>>>>>
HashInit ==
    LET holding(P) == InitWith(P.R, P.metrics, {})
    IN  holding(Deriving([R |-> Catalog, metrics |-> {}], HashedUnits, 1))
\* self == other, hash(self) and hash(other)
HashMetrics ==
    /\ ops < MaxOps
    /\ \E self, other \in handed_metrics :
        last' = [NoLast EXCEPT !.op = "Metric.__hash__", !.left = self, !.right = other,
                               !.outcome = IF MetricEq(Registry, self, other) THEN "True" ELSE "False",
                               !.hashes = <<MetricHash(self), MetricHash(other)>>]
    /\ ops' = ops + 1
    /\ UNCHANGED <<registry_vars, handed_metrics, handed_dimensions, instance>>
HashNext == HashMetrics \/ MetricMultiply \/ PrefixTimesMetric
HashSpec == HashInit /\ [][HashNext]_vars

\* C30: two Metrics that compare equal with == have the same hash.
C30_EqualMetricsHashEqually ==
    (last.op = "Metric.__hash__" /\ last.outcome = "True") => last.hashes[1] = last.hashes[1 + 1]
====
